---- MODULE Spec2Model ----
(***************************************************************************)
(* Job lifecycle and batch orchestration of the image localisation         *)
(* backend: the jobs table (convex/jobs.ts as documented in                *)
(* CONVEX_SETUP.md, convex/publicJobs.ts), the Orchestrator and the batch  *)
(* loop (convex/processing.ts) and the HTTP facade that drives them        *)
(* (convex/http.ts).                                                       *)
(*                                                                         *)
(* A step of the model is one Convex transaction (a query or a mutation)   *)
(* or one stretch of an action between two transactions; the awaits of an  *)
(* action are the points where other requests interleave.                  *)
(***************************************************************************)
EXTENDS Integers, Sequences, FiniteSets, TLC

\* ---------------------------------------------------------------- bounds
MaxJobs == 3        \* rows the HTTP facade may insert into the jobs table
MaxProcs == 2       \* HTTP requests in flight at once
MaxUrls == 3        \* length of the urls array of one batch request
MaxBatches == 2     \* batch ids that may be generated
MaxRacing == 1      \* server-side requests in flight while clients mutate
MaxBatchArgs == 1   \* distinct batchId arguments callers pass on their own
MaxOwnJobs == 2     \* rows that clients and own invocations may insert
MaxPresets == 2     \* rows of the presets table
MaxPresetJobs == 1  \* jobs created from presets
MaxPage == 2        \* largest page size asked of listJobs
MaxTasks == 2       \* files selected in the front end
MaxRuns == 2        \* calls of processQueue in progress at once

Procs == 1..MaxProcs

\* ------------------------------------------------------- optional fields
\* v.optional(...): a field that is absent is None, a present one Some(v).
None == <<>>
Some(v) == <<v>>
IsSet(o) == o # None

\* ------------------------------------------------------------- the data
Statuses == {"pending", "processing", "completed", "failed"}
Terminal == {"completed", "failed"}

\* Opaque values the model does not look into.
FileId == "storageId"          \* what ctx.storage.store returns
DerivedName == "localized.png" \* what generateOutputFilename returns
SourceName == "photo.jpg"      \* sourceName of a front-end upload
Timestamp == "now"             \* what Date.now() returns

\* usageMetadata.totalTokenCount of a transform response: absent or a count.
UsageCounts == {None, Some(3)}
\* response.usageMetadata?.totalTokenCount || 0
UsageTotal(u) == IF u = None THEN 0 ELSE u[1]

\* Where the try block of processJob can throw, and the message thrown.
\* "sdk" is an exception of fetch or of the SDK (steps 3 to 5) whose message
\* is empty, "blocked" a finish reason other than STOP, "noUrl" a stored
\* artifact without URL.
ThrowSites == {"sdk", "blocked", "noUrl"}
ThrownMessage(site) ==
    CASE site = "sdk"     -> ""
      [] site = "blocked" -> "Generation stopped: SAFETY"
      [] site = "noUrl"   -> "Failed to get storage URL"
Outcomes == {"ok"} \cup ThrowSites

\* error.message || "Unknown error"
CaughtMessage(msg) == IF msg = "" THEN "Unknown error" ELSE msg

\* Arguments a front-end client passes to the public mutations.
ClientErrors == {"", "Generation stopped: SAFETY"}
ClientTokens == {None, Some(3)}

\* A configuration, as presetInputValidator and configValidator take it: of
\* its required fields the target country, of its optional ones the model
\* version (absent, or a value).
Countries == {"US", "JP"}
ModelVersions == {None, Some("pro")}
Configs == [targetCountry : Countries, modelVersion : ModelVersions]

\* The config and source of a job created without a preset.
InlineConfig == [targetCountry |-> "US", modelVersion |-> None]
SourceUrl == "https://host/photo.jpg"
OtherUrl == "https://host/other.jpg"

\* The urls array of n entries that a batch request carries: the two urls in
\* turns, so that an array of three holds the first url twice. (The handlers
\* never look into a url.)
UrlLists(n) == {[k \in 1..n |-> IF k % 2 = 1 THEN SourceUrl ELSE OtherUrl]}

\* An entry of a urls array that is not a string (a number, null, an object):
\* Array.isArray and urls.length do not look at it, the v.string() of
\* jobs.create does. The arrays of n entries whose second entry is one.
NotAString == "42"
MalformedUrlLists(n) ==
    IF n < 2 THEN {}
    ELSE {[k \in 1..n |-> IF k = 2 THEN NotAString
                          ELSE IF k % 2 = 1 THEN SourceUrl ELSE OtherUrl]}

\* The entries before the first that is not a string: the jobs that the
\* creation loop inserts.
Creatable(urls) ==
    LET bad == {k \in 1..Len(urls) : urls[k] = NotAString} IN
    IF bad = {} THEN Len(urls)
    ELSE (CHOOSE k \in bad : \A x \in bad : k <= x) - 1

\* What runMutation throws when an argument fails the validator.
ArgumentError == "ArgumentValidationError: Value does not match validator. Path: .sourceUrl"

\* Preset names a caller may send: empty, blank, and a proper one.
PresetNames == {"", " ", "A"}

\* String.prototype.trim on these names.
Trim(name) == IF name = " " THEN "" ELSE name

\* Date.now() as the preset mutations read it.
Times == {1, 2}

\* No call of generateOutputFilename.
NoCall ==
    [originalName |-> <<>>, findPattern |-> <<>>, replacePattern |-> <<>>,
     now |-> 0, result |-> None]

\* No run of the try block of processJob.
NoAttempt == [response |-> None, fileUrl |-> None, result |-> None]

\* No query answered.
NoArgs ==
    [jobId |-> 0, batchId |-> None, status |-> None, limit |-> None,
     offset |-> None, name |-> ""]
NoRead == [op |-> "none", args |-> NoArgs, result |-> None]

\* No request to the transform service being assembled.
NoRequest == [side |-> "none", config |-> None, sent |-> None]

\* No call of processQueue in this place.
Stopped ==
    [pc |-> "idle", seen |-> <<>>, at |-> 0, batchId |-> 0, convexJobId |-> 0,
     msg |-> ""]

\* The front end as it is mounted: useState([]), useState(false) twice, and
\* no processQueue running.
NoRun ==
    [tasks |-> <<>>, isProcessing |-> FALSE, apiKeyReady |-> FALSE,
     runs |-> [r \in 1..MaxRuns |-> Stopped]]

VARIABLES
    jobs,       \* the jobs table in creation order; a job's id is its index
    procs,      \* the server-side requests in flight
    nextBatch,  \* batch ids generated so far, plus one
    presets,    \* the presets table in insertion order
    reply,      \* what the last preset operation answered its caller, if any
    naming,     \* a call of generateOutputFilename and its result
    attempt,    \* a transform response in the try block of processJob, and
                \* what the run then writes
    read,       \* the last query answered: its arguments and its result
    request,    \* a request to the transform service being assembled: the
                \* config, then the parts sent
    front       \* the front end: its tasks and the run of processQueue

vars ==
    <<jobs, procs, nextBatch, presets, reply, naming, attempt, read, request,
      front>>

\* The job side and the preset side of the state.
jobVars == <<jobs, procs, nextBatch>>
presetVars == <<presets, reply>>

\* The functions and queries called on their own.
callVars == <<naming, attempt, read, request, front>>

JobIds == 1..Len(jobs)

\* ------------------------------------------------------------ job store
\* jobs.create: ctx.db.insert("jobs", { sourceUrl, config, presetName,
\* batchId, status: "pending", createdAt: Date.now() })
NewJobFrom(sourceUrl, config, presetName, batchId) ==
    [sourceUrl |-> sourceUrl, config |-> config, presetName |-> presetName,
     batchId |-> batchId, status |-> "pending", createdAt |-> Timestamp,
     error |-> None, generatedFileId |-> None, generatedFileName |-> None,
     totalTokens |-> None, completedAt |-> None]

\* jobs.create with an inline config and no preset name.
NewJob(batchId) == NewJobFrom(SourceUrl, InlineConfig, None, batchId)

\* publicJobs.createJob: as jobs.create, with generatedFileName: sourceName
NewPublicJob(batchId, sourceName) ==
    [NewJob(batchId) EXCEPT !.generatedFileName = Some(sourceName)]

\* Mutant of PatchProcessing: the config is read again from the preset the
\* job names, if it is still there.
PatchProcessingRereads(job) ==
    LET named == {i \in 1..Len(presets) : Some(presets[i].name) = job.presetName}
        row == presets[CHOOSE i \in named : TRUE]
    IN [job EXCEPT !.status = "processing",
                   !.config = IF named = {} THEN @
                              ELSE [targetCountry |-> row.targetCountry,
                                    modelVersion |-> row.modelVersion]]

\* jobs.setProcessing / publicJobs.setJobProcessing
PatchProcessing(job) == [job EXCEPT !.status = "processing"]

\* jobs.setCompleted
PatchCompleted(job, fileId, fileName, tokens) ==
    [job EXCEPT !.status = "completed",
                !.generatedFileId = Some(fileId),
                !.generatedFileName = Some(fileName),
                !.totalTokens = tokens,
                !.completedAt = Some(Timestamp)]

\* publicJobs.setJobCompleted: no generatedFileId among its arguments
PatchPublicCompleted(job, fileName, tokens) ==
    [job EXCEPT !.status = "completed",
                !.generatedFileName = Some(fileName),
                !.totalTokens = tokens,
                !.completedAt = Some(Timestamp)]

\* jobs.setFailed / publicJobs.setJobFailed
PatchFailed(job, error) ==
    [job EXCEPT !.status = "failed",
                !.error = Some(error),
                !.completedAt = Some(Timestamp)]

\* Mutant of GetByBatchId: the index read newest first.
RECURSIVE IdsDownFrom(_, _)
IdsDownFrom(i, batchId) ==
    IF i < 1 THEN <<>>
    ELSE (IF jobs[i].batchId = Some(batchId) THEN <<i>> ELSE <<>>)
         \o IdsDownFrom(i - 1, batchId)

GetByBatchIdNewestFirst(batchId) == IdsDownFrom(Len(jobs), batchId)

\* jobs.getByBatchId: the ids of the jobs of a batch; the by_batchId index
\* yields them in creation order.
RECURSIVE IdsFrom(_, _)
IdsFrom(i, batchId) ==
    IF i > Len(jobs) THEN <<>>
    ELSE (IF jobs[i].batchId = Some(batchId) THEN <<i>> ELSE <<>>)
         \o IdsFrom(i + 1, batchId)

\* Mutant of GetByBatchId: the index range is left out and every job comes
\* back.
GetByBatchIdUnfiltered(batchId) == [i \in 1..Len(jobs) |-> i]

GetByBatchId(batchId) == IdsFrom(1, batchId)

\* jobs.filter((j) => j.status === status).length
CountStatus(ids, status) ==
    Cardinality({k \in 1..Len(ids) : jobs[ids[k]].status = status})

\* jobs.reduce((sum, j) => sum + (j.totalTokens ?? 0), 0)
RECURSIVE SumTokens(_)
SumTokens(ids) ==
    IF ids = <<>> THEN 0
    ELSE (IF jobs[Head(ids)].totalTokens = None THEN 0
          ELSE jobs[Head(ids)].totalTokens[1])
         + SumTokens(Tail(ids))

\* Mutant of GetBatchSummary: pending counted as "not completed".
GetBatchSummaryPendingAsRest(batchId) ==
    LET ids == GetByBatchId(batchId) IN
    [total |-> Len(ids),
     completed |-> CountStatus(ids, "completed"),
     failed |-> CountStatus(ids, "failed"),
     pending |-> Len(ids) - CountStatus(ids, "completed"),
     processing |-> CountStatus(ids, "processing"),
     totalTokens |-> SumTokens(ids)]

\* jobs.getBatchSummary / publicJobs.getBatchSummary
GetBatchSummary(batchId) ==
    LET ids == GetByBatchId(batchId) IN
    [total |-> Len(ids),
     completed |-> CountStatus(ids, "completed"),
     failed |-> CountStatus(ids, "failed"),
     pending |-> CountStatus(ids, "pending"),
     processing |-> CountStatus(ids, "processing"),
     totalTokens |-> SumTokens(ids)]

\* ------------------------------------------------------------- requests
\* kind: which entry point the request came through
\*   "job"        processing.processJob invoked on its own
\*   "batch"      processing.processBatch invoked on its own
\*   "httpSingle" POST /api/process/single(-with-config)
\*   "httpBatch"  POST /api/process/batch(-with-config)
\* pc: the transaction the request performs next; "a_returned" and "a_threw"
\* are an internal action that has returned null, or thrown, to its caller.
Idle ==
    [kind |-> "idle", pc |-> "idle", batchId |-> 0, left |-> 0,
     queue |-> <<>>, jobId |-> 0, msg |-> "", usage |-> None,
     rejected |-> {}, urls |-> 0, results |-> <<>>, response |-> None,
     presetName |-> None, config |-> None, sources |-> <<>>,
     created |-> <<>>]

Init ==
    /\ jobs = <<>>
    /\ procs = [p \in Procs |-> Idle]
    /\ nextBatch = 1
    /\ presets = <<>>
    /\ reply = None
    /\ naming = NoCall
    /\ attempt = NoAttempt
    /\ read = NoRead
    /\ front = NoRun
    /\ request = NoRequest

\* Rows the requests in flight still have to insert.
Reserved == LET RECURSIVE Sum(_)
                Sum(n) == IF n = 0 THEN 0 ELSE procs[n].left + Sum(n - 1)
            IN Sum(MaxProcs)

\* for (const job of jobs) { if (job.status === "pending") ... }: the jobs of
\* the snapshot the loop will run, in the snapshot's order.
PendingOf(ids) == SelectSeq(ids, LAMBDA i : jobs[i].status = "pending")

\* return null of an internal action invoked on its own.
Returned(c) == [Idle EXCEPT !.kind = c.kind, !.pc = "a_returned", !.jobId = c.jobId]

\* The request once its processBatch has returned.
AfterBatch(c) ==
    IF c.kind = "httpBatch" THEN [c EXCEPT !.pc = "h_readJobs", !.jobId = 0]
    ELSE Returned([c EXCEPT !.jobId = 0])

\* Mutant of BatchLoop: the loop ends at the first job that failed.
BatchLoopStopsAtFailure(c, queue) ==
    IF queue = <<>> \/ c.jobId \in c.rejected
    THEN AfterBatch([c EXCEPT !.queue = <<>>])
    ELSE [c EXCEPT !.pc = "j_load", !.jobId = Head(queue), !.queue = Tail(queue)]

\* The loop of processBatch: run the next job of the queue, or return.
BatchLoop(c, queue) ==
    IF queue = <<>> THEN AfterBatch([c EXCEPT !.queue = <<>>])
    ELSE [c EXCEPT !.pc = "j_load", !.jobId = Head(queue), !.queue = Tail(queue)]

\* An exception that leaves processJob or processBatch: the HTTP handlers
\* catch it and answer 500, an action invoked on its own passes it on to its
\* caller.
Thrown(c, message) ==
    IF c.kind \in {"httpSingle", "httpBatch"}
    THEN [c EXCEPT !.pc = "h_done",
                   !.response = Some([success |-> FALSE, error |-> message])]
    ELSE [Idle EXCEPT !.kind = c.kind, !.pc = "a_threw", !.jobId = c.jobId,
                      !.msg = message]

\* Mutant of AfterJob: the catch block throws again once it has recorded the
\* failure.
AfterJobRethrows(c) ==
    IF c.pc = "j_setFailed" THEN Thrown(c, c.msg)
    ELSE CASE c.kind \in {"batch", "httpBatch"} -> BatchLoop(c, c.queue)
           [] c.kind = "httpSingle" -> [c EXCEPT !.pc = "s_readJob"]
           [] OTHER -> Returned(c)

\* The request once its processJob has returned null.
AfterJob(c) ==
    CASE c.kind \in {"batch", "httpBatch"} -> BatchLoop(c, c.queue)
      [] c.kind = "httpSingle" -> [c EXCEPT !.pc = "s_readJob"]
      [] OTHER -> Returned(c)

\* Mutant of RecordFailure: the catch block swallows the error and writes
\* nothing.
RecordFailureDropped(job, msg) == job

\* Mutant of RecordFailure: the message recorded as thrown.
RecordFailureRawMessage(job, msg) == PatchFailed(job, msg)

\* catch (error) { setFailed({ jobId, error: error.message || "Unknown error" }) }
RecordFailure(job, msg) == PatchFailed(job, CaughtMessage(msg))

\* setCompleted({ jobId, generatedFileId, generatedFileName, ..., totalTokens })
RecordSuccess(job, usage) ==
    PatchCompleted(job, FileId, DerivedName, Some(UsageTotal(usage)))

\* ------------------------------------------------- processing.processJob
\* const job = await ctx.runQuery(internal.jobs.getById, ...);
\* if (!job) throw new Error("Job not found")
PJ_Load(p) ==
    LET c == procs[p] IN
    /\ c.pc = "j_load"
    /\ procs' = [procs EXCEPT ![p] =
          IF c.jobId \in JobIds THEN [c EXCEPT !.pc = "j_setProcessing"]
          ELSE Thrown(c, "Job not found")]
    /\ UNCHANGED <<jobs, nextBatch, presetVars, callVars>>

\* await ctx.runMutation(internal.jobs.setProcessing, ...)
PJ_SetProcessing(p) ==
    LET c == procs[p] IN
    /\ c.pc = "j_setProcessing"
    /\ jobs' = [jobs EXCEPT ![c.jobId] = PatchProcessing(@)]
    /\ procs' = [procs EXCEPT ![p].pc = "j_body"]
    /\ UNCHANGED <<nextBatch, presetVars, callVars>>

\* The try block up to its last statement: fetch the source, call the
\* transform service, validate the response, derive the filename, store the
\* artifact and get its URL. None of it touches the jobs table.
PJ_Body(p) ==
    LET c == procs[p] IN
    /\ c.pc = "j_body"
    /\ \E outcome \in Outcomes, u \in UsageCounts :
          procs' = [procs EXCEPT ![p] =
             IF outcome = "ok"
             THEN [c EXCEPT !.pc = "j_setCompleted", !.usage = u]
             ELSE [c EXCEPT !.pc = "j_setFailed",
                            !.msg = ThrownMessage(outcome),
                            !.rejected = IF c.kind = "httpBatch"
                                         THEN @ \cup {c.jobId} ELSE @]]
    /\ UNCHANGED <<jobs, nextBatch, presetVars, callVars>>

\* await ctx.runMutation(internal.jobs.setCompleted, ...); return null
PJ_SetCompleted(p) ==
    LET c == procs[p] IN
    /\ c.pc = "j_setCompleted"
    /\ jobs' = [jobs EXCEPT ![c.jobId] = RecordSuccess(@, c.usage)]
    /\ procs' = [procs EXCEPT ![p] = AfterJob([c EXCEPT !.usage = None])]
    /\ UNCHANGED <<nextBatch, presetVars, callVars>>

\* the catch block; return null
PJ_SetFailed(p) ==
    LET c == procs[p] IN
    /\ c.pc = "j_setFailed"
    /\ jobs' = [jobs EXCEPT ![c.jobId] = RecordFailure(@, c.msg)]
    /\ procs' = [procs EXCEPT ![p] = AfterJob([c EXCEPT !.msg = ""])]
    /\ UNCHANGED <<nextBatch, presetVars, callVars>>

\* ----------------------------------------------- processing.processBatch
\* const jobs = await ctx.runQuery(internal.jobs.getByBatchId, ...), then the
\* loop over that snapshot up to its first processJob call.
PB_Query(p) ==
    LET c == procs[p] IN
    /\ c.pc = "b_query"
    /\ procs' = [procs EXCEPT ![p] =
                    BatchLoop(c, PendingOf(GetByBatchId(c.batchId)))]
    /\ UNCHANGED <<jobs, nextBatch, presetVars, callVars>>

\* The internal actions invoked on their own (dashboard, CLI, scheduler).
StartProcessJob(p) ==
    /\ procs[p].kind = "idle"
    /\ \E j \in 1..(Len(jobs) + 1) :
          procs' = [procs EXCEPT ![p] =
                       [Idle EXCEPT !.kind = "job", !.pc = "j_load", !.jobId = j]]
    /\ UNCHANGED <<jobs, nextBatch, presetVars, callVars>>

StartProcessBatch(p) ==
    /\ procs[p].kind = "idle"
    /\ \E b \in 1..MaxBatchArgs :
          procs' = [procs EXCEPT ![p] =
                       [Idle EXCEPT !.kind = "batch", !.pc = "b_query", !.batchId = b]]
    /\ UNCHANGED <<jobs, nextBatch, presetVars, callVars>>

\* The caller of an internal action gets its result: null, or the exception.
Return(p) ==
    /\ procs[p].pc \in {"a_returned", "a_threw"}
    /\ procs' = [procs EXCEPT ![p] = Idle]
    /\ UNCHANGED <<jobs, nextBatch, presetVars, callVars>>

\* ------------------------------------------------------ convex/http.ts
\* POST /api/process/single(-with-config): jobs.create, then processJob
HS_Start(p) ==
    /\ procs[p].kind = "idle"
    /\ Len(jobs) + Reserved < MaxJobs
    /\ jobs' = Append(jobs, NewJob(None))
    /\ procs' = [procs EXCEPT ![p] =
                    [Idle EXCEPT !.kind = "httpSingle", !.pc = "j_load",
                                 !.jobId = Len(jobs) + 1]]
    /\ UNCHANGED <<nextBatch, presetVars, callVars>>

\* Mutant of SingleResponse: a failed job is answered with the handler's own
\* message, not with the job's.
SingleResponseOwnMessage(job) ==
    IF job.status = "failed"
    THEN [success |-> FALSE, error |-> "Processing failed"]
    ELSE [success |-> TRUE, generatedFileName |-> job.generatedFileName]

\* const job = getById(jobId);
\* if (!job || job.status === "failed") return errorResponse(job?.error || ..., 500)
SingleResponse(job) ==
    IF job.status = "failed"
    THEN [success |-> FALSE,
          error |-> IF job.error \in {None, Some("")} THEN "Processing failed"
                    ELSE job.error[1]]
    ELSE [success |-> TRUE, generatedFileName |-> job.generatedFileName]

HS_ReadJob(p) ==
    LET c == procs[p] IN
    /\ c.pc = "s_readJob"
    /\ procs' = [procs EXCEPT ![p] =
                    [c EXCEPT !.pc = "h_done",
                              !.response = Some(SingleResponse(jobs[c.jobId]))]]
    /\ UNCHANGED <<jobs, nextBatch, presetVars, callVars>>

\* POST /api/process/batch(-with-config): validate the urls array and
\* generate the batch id. The arrays of these requests hold strings.
HB_Start(p) ==
    /\ procs[p].kind = "idle"
    /\ \E n \in 0..MaxUrls :
          IF n = 0
          THEN /\ procs' = [procs EXCEPT ![p] =
                   [Idle EXCEPT !.kind = "httpBatch", !.pc = "h_done",
                       !.response = Some([success |-> FALSE,
                                          error |-> "URLs array is required"])]]
               /\ UNCHANGED nextBatch
          ELSE /\ nextBatch <= MaxBatches
               /\ Len(jobs) + Reserved + n <= MaxJobs
               /\ \E urls \in UrlLists(n) :
                     procs' = [procs EXCEPT ![p] =
                        [Idle EXCEPT !.kind = "httpBatch", !.pc = "h_create",
                                     !.batchId = nextBatch, !.left = n,
                                     !.urls = n, !.sources = urls]]
               /\ nextBatch' = nextBatch + 1
    /\ UNCHANGED <<jobs, presetVars, callVars>>

\* The url the loop over urls has come to.
NextUrl(c) == c.sources[c.urls - c.left + 1]

\* for (const url of urls) { const jobId = await ctx.runMutation(
\* internal.jobs.create, ...); jobIds.push(jobId) }: one turn of the loop. A
\* url that jobs.create does not take ends the loop in the handler's catch,
\* return errorResponse(error.message, 500).
HB_Create(p) ==
    LET c == procs[p] IN
    /\ c.pc = "h_create"
    /\ IF NextUrl(c) = NotAString
       THEN /\ procs' = [procs EXCEPT ![p] =
                  Thrown([c EXCEPT !.left = 0, !.presetName = None,
                                   !.config = None], ArgumentError)]
            /\ UNCHANGED jobs
       ELSE /\ jobs' = Append(jobs,
                  IF c.config = None
                  THEN NewJobFrom(NextUrl(c), InlineConfig, None, Some(c.batchId))
                  ELSE NewJobFrom(NextUrl(c), c.config[1], c.presetName,
                                  Some(c.batchId)))
            /\ procs' = [procs EXCEPT ![p] =
                  IF c.left = 1
                  THEN [c EXCEPT !.left = 0, !.pc = "b_query",
                                 !.presetName = None, !.config = None,
                                 !.created = Append(@, Len(jobs) + 1)]
                  ELSE [c EXCEPT !.left = @ - 1,
                                 !.created = Append(@, Len(jobs) + 1)]]
    /\ UNCHANGED <<nextBatch, presetVars, callVars>>

\* jobs.map((job) => ({ jobId, ..., status, error }))
BatchResults(ids) ==
    [k \in 1..Len(ids) |->
        [jobId |-> ids[k], sourceUrl |-> jobs[ids[k]].sourceUrl,
         status |-> jobs[ids[k]].status, error |-> jobs[ids[k]].error]]

\* const jobs = await ctx.runQuery(internal.jobs.getByBatchId, { batchId })
HB_ReadJobs(p) ==
    LET c == procs[p] IN
    /\ c.pc = "h_readJobs"
    /\ procs' = [procs EXCEPT ![p] =
                    [c EXCEPT !.pc = "h_readSummary",
                              !.results = BatchResults(GetByBatchId(c.batchId))]]
    /\ UNCHANGED <<jobs, nextBatch, presetVars, callVars>>

\* summary: { total, completed, failed, totalTokens } of getBatchSummary
BatchResponse(results, summary) ==
    [success |-> TRUE, results |-> results,
     summary |-> [total |-> summary.total, completed |-> summary.completed,
                  failed |-> summary.failed, totalTokens |-> summary.totalTokens]]

\* const summary = await ctx.runQuery(internal.jobs.getBatchSummary, ...);
\* return jsonResponse({ success: true, batchId, results, summary })
HB_ReadSummary(p) ==
    LET c == procs[p] IN
    /\ c.pc = "h_readSummary"
    /\ procs' = [procs EXCEPT ![p] =
          [c EXCEPT !.pc = "h_done", !.results = <<>>,
                    !.response = Some(BatchResponse(c.results,
                                          GetBatchSummary(c.batchId)))]]
    /\ UNCHANGED <<jobs, nextBatch, presetVars, callVars>>

\* The response leaves the server.
Respond(p) ==
    /\ procs[p].pc = "h_done"
    /\ procs' = [procs EXCEPT ![p] = Idle]
    /\ UNCHANGED <<jobs, nextBatch, presetVars, callVars>>

\* jobs.create invoked on its own.
Create ==
    /\ Len(jobs) < MaxOwnJobs
    /\ \E b \in {None} \cup {Some(k) : k \in 1..MaxBatchArgs} :
          jobs' = Append(jobs, NewJob(b))
    /\ UNCHANGED <<procs, nextBatch, presetVars, callVars>>

\* ------------------------------------------ convex/publicJobs.ts mutations
\* createJob with any batchId string, or none.
CreateJob ==
    /\ Len(jobs) < MaxOwnJobs
    /\ \E b \in {None} \cup {Some(k) : k \in 1..MaxBatchArgs} :
          jobs' = Append(jobs, NewPublicJob(b, SourceName))
    /\ UNCHANGED <<procs, nextBatch, presetVars, callVars>>

SetJobProcessing ==
    /\ \E j \in JobIds : jobs' = [jobs EXCEPT ![j] = PatchProcessing(@)]
    /\ UNCHANGED <<procs, nextBatch, presetVars, callVars>>

SetJobCompleted ==
    /\ \E j \in JobIds, t \in ClientTokens :
          jobs' = [jobs EXCEPT ![j] = PatchPublicCompleted(@, DerivedName, t)]
    /\ UNCHANGED <<procs, nextBatch, presetVars, callVars>>

\* setJobCompletedWithFile: as jobs.setCompleted, generatedFileId: storageId
SetJobCompletedWithFile ==
    /\ \E j \in JobIds, t \in ClientTokens :
          jobs' = [jobs EXCEPT ![j] = PatchCompleted(@, FileId, DerivedName, t)]
    /\ UNCHANGED <<procs, nextBatch, presetVars, callVars>>

SetJobFailed ==
    /\ \E j \in JobIds, e \in ClientErrors :
          jobs' = [jobs EXCEPT ![j] = PatchFailed(@, e)]
    /\ UNCHANGED <<procs, nextBatch, presetVars, callVars>>

\* ------------------------------------------------------- convex/presets.ts
\* ctx.db.insert("presets", { name, ...args.config, createdAt: now, updatedAt: now })
Row(name, config, now) ==
    [name |-> name, targetCountry |-> config.targetCountry,
     modelVersion |-> config.modelVersion, createdAt |-> now, updatedAt |-> now]

\* ctx.db.query("presets").withIndex("by_name", (q) => q.eq("name", name)):
\* the places of the rows of that name.
ByName(name) == {i \in 1..Len(presets) : presets[i].name = name}

\* ctx.db.patch(existing._id, { ...args.config, updatedAt: Date.now() }): a
\* field of the patch object replaces the stored one, a field the object does
\* not have is left as stored.
Patch(row, config, now) ==
    [row EXCEPT !.targetCountry = config.targetCountry,
                !.modelVersion = IF config.modelVersion = None THEN @
                                 ELSE config.modelVersion,
                !.updatedAt = now]

\* ctx.db.delete(existing._id)
Without(i) == SubSeq(presets, 1, i - 1) \o SubSeq(presets, i + 1, Len(presets))

DuplicateName(name) == "Preset with name \"" \o name \o "\" already exists"
NotFound(name) == "Preset \"" \o name \o "\" not found"

\* What a preset mutation does: the table it leaves and the error it throws,
\* if any.
Done(table) == [table |-> table, error |-> None]
Failed(message) == [table |-> presets, error |-> Some(message)]

\* Mutant of CreateResult: no look-up before the insert.
CreateResultUnchecked(name, config, now) == Done(Append(presets, Row(name, config, now)))

\* presets.create (internal): existence check, then insert
CreateResult(name, config, now) ==
    IF ByName(name) # {} THEN Failed(DuplicateName(name))
    ELSE Done(Append(presets, Row(name, config, now)))

\* presets.createPreset (public): the name is validated first
CreatePresetResult(name, config, now) ==
    IF name = "" \/ Trim(name) = "" THEN Failed("Preset name cannot be empty")
    ELSE IF ByName(name) # {} THEN Failed(DuplicateName(name))
    ELSE Done(Append(presets, Row(name, config, now)))

\* Mutant of UpdateResult: a missing preset is inserted.
UpdateResultOrInsert(name, config, now) ==
    IF ByName(name) = {} THEN Done(Append(presets, Row(name, config, now)))
    ELSE Done([presets EXCEPT ![CHOOSE i \in ByName(name) : TRUE] =
                  Patch(@, config, now)])

\* presets.update / presets.updatePreset
UpdateResult(name, config, now) ==
    IF ByName(name) = {} THEN Failed(NotFound(name))
    ELSE Done([presets EXCEPT ![CHOOSE i \in ByName(name) : TRUE] =
                  Patch(@, config, now)])

\* presets.deleteByName / presets.deletePreset
DeleteResult(name) ==
    IF ByName(name) = {} THEN Failed(NotFound(name))
    ELSE Done(Without(CHOOSE i \in ByName(name) : TRUE))

\* The answer a caller gets, with the call it answers: the operation, its
\* name and config arguments, the HTTP status (0 for a Convex function called
\* directly) and the error.
Answer(op, name, config, code, error) ==
    Some([op |-> op, name |-> name, config |-> config, code |-> code,
          error |-> error])

\* A preset mutation called directly: one transaction.
Mutation(op, name, config, result) ==
    /\ reply = None
    /\ Len(result.table) <= MaxPresets
    /\ presets' = result.table
    /\ reply' = Answer(op, name, config, 0, result.error)
    /\ UNCHANGED <<jobVars, callVars>>

PresetsCreate ==
    \E name \in PresetNames, config \in Configs, now \in Times :
       Mutation("create", name, Some(config),
                CreateResult(name, config, now))

CreatePreset ==
    \E name \in PresetNames, config \in Configs, now \in Times :
       Mutation("createPreset", name, Some(config),
                CreatePresetResult(name, config, now))

PresetsUpdate ==
    \E name \in PresetNames, config \in Configs, now \in Times :
       Mutation("update", name, Some(config),
                UpdateResult(name, config, now))

UpdatePreset ==
    \E name \in PresetNames, config \in Configs, now \in Times :
       Mutation("updatePreset", name, Some(config),
                UpdateResult(name, config, now))

PresetsDeleteByName ==
    \E name \in PresetNames : Mutation("deleteByName", name, None, DeleteResult(name))

DeletePreset ==
    \E name \in PresetNames : Mutation("deletePreset", name, None, DeleteResult(name))

\* POST /api/presets: if (!name) return errorResponse("Preset name is
\* required"); runMutation(internal.presets.create); catch -> 500
PostPreset ==
    /\ reply = None
    /\ \E name \in PresetNames, config \in Configs, now \in Times :
          IF name = ""
          THEN /\ reply' = Answer("POST /api/presets", name, Some(config), 400,
                                  Some("Preset name is required"))
               /\ UNCHANGED presets
          ELSE LET result == CreateResult(name, config, now) IN
               /\ Len(result.table) <= MaxPresets
               /\ presets' = result.table
               /\ reply' = Answer("POST /api/presets", name, Some(config),
                                  IF result.error = None THEN 200 ELSE 500,
                                  result.error)
    /\ UNCHANGED <<jobVars, callVars>>

\* preset.targetCountry, ..., preset.modelVersion copied into a config object
ConfigOf(row) ==
    [targetCountry |-> row.targetCountry, modelVersion |-> row.modelVersion]

\* What a caller may send as url: nothing, or a URL.
RequestUrls == {None, Some(SourceUrl)}

\* errorResponse(message): the request ends there, nothing written.
Refused(kind, message) ==
    [Idle EXCEPT !.kind = kind, !.pc = "h_done",
                 !.response = Some([success |-> FALSE, error |-> message])]

\* Mutant of Refusal: no check of !presetName.
RefusalWithoutNameCheck(missing, message, name) ==
    IF missing THEN Some(message)
    ELSE IF ByName(name) = {} THEN Some(NotFound(name))
    ELSE None

\* The checks of POST /api/process/single and /batch, in their order: the
\* url or urls (missing tells that the check fails, message what it then
\* answers), if (!presetName), and getByName with if (!preset). The message
\* of the first check that fails, or None.
Refusal(missing, message, name) ==
    IF missing THEN Some(message)
    ELSE IF name = "" THEN Some("Preset name is required")
    ELSE IF ByName(name) = {} THEN Some(NotFound(name))
    ELSE None

\* POST /api/process/single, up to the preset look-up.
HSP_Start(p) ==
    /\ procs[p].kind = "idle"
    /\ Len(jobs) < MaxPresetJobs
    /\ \E url \in RequestUrls, name \in PresetNames :
          LET refusal == Refusal(url = None, "Image URL is required", name) IN
          procs' = [procs EXCEPT ![p] =
             IF refusal # None THEN Refused("httpSingle", refusal[1])
             ELSE [Idle EXCEPT !.kind = "httpSingle", !.pc = "s_create",
                      !.presetName = Some(name),
                      !.config = Some(ConfigOf(
                                   presets[CHOOSE i \in ByName(name) : TRUE]))]]
    /\ UNCHANGED <<jobs, nextBatch, presetVars, callVars>>

\* jobs.create({ sourceUrl: url, config, presetName }), then processJob
HSP_Create(p) ==
    LET c == procs[p] IN
    /\ c.pc = "s_create"
    /\ jobs' = Append(jobs, NewJobFrom(SourceUrl, c.config[1], c.presetName, None))
    /\ procs' = [procs EXCEPT ![p] =
                    [c EXCEPT !.pc = "j_load", !.jobId = Len(jobs) + 1,
                              !.presetName = None, !.config = None]]
    /\ UNCHANGED <<nextBatch, presetVars, callVars>>

\* POST /api/process/batch, up to the batch id: the urls array (n its
\* length, 0 for a missing or empty one), the preset name and the preset.
HBP_Start(p) ==
    /\ procs[p].kind = "idle"
    /\ \E n \in 0..MaxUrls, name \in PresetNames :
          LET refusal == Refusal(n = 0, "URLs array is required", name) IN
          IF refusal # None
          THEN /\ procs' = [procs EXCEPT ![p] = Refused("httpBatch", refusal[1])]
               /\ UNCHANGED nextBatch
          ELSE /\ nextBatch <= MaxBatches
               /\ \E urls \in UrlLists(n) \cup MalformedUrlLists(n) :
                     /\ Len(jobs) + Creatable(urls) <= MaxPresetJobs
                     /\ procs' = [procs EXCEPT ![p] =
                           [Idle EXCEPT !.kind = "httpBatch", !.pc = "h_create",
                              !.batchId = nextBatch, !.left = n, !.urls = n,
                              !.sources = urls,
                              !.presetName = Some(name),
                              !.config = Some(ConfigOf(
                                 presets[CHOOSE i \in ByName(name) : TRUE]))]]
               /\ nextBatch' = nextBatch + 1
    /\ UNCHANGED <<jobs, presetVars, callVars>>

\* presets.create, update and deleteByName called by a caller that drops the
\* answer.
PresetEdit ==
    /\ \E name \in PresetNames, config \in Configs, now \in Times :
          \E result \in {CreateResult(name, config, now),
                         UpdateResult(name, config, now), DeleteResult(name)} :
             /\ Len(result.table) <= MaxPresets
             /\ presets' = result.table
    /\ UNCHANGED <<reply, jobVars, callVars>>

\* The caller has its answer.
Ack ==
    /\ reply # None
    /\ reply' = None
    /\ UNCHANGED <<presets, jobVars, callVars>>

\* ------------------------------------------- convex/utils/filenameUtils.ts
\* Strings are sequences of one-character strings.
Http == <<"h", "t", "t", "p">>
ImageName == <<"i", "m", "a", "g", "e">>
Localized == <<"l", "o", "c", "a", "l", "i", "z", "e", "d", "_">>
DotPng == <<".", "p", "n", "g">>
TimestampToken == <<"T", "I", "M", "E", "S", "T", "A", "M", "P">>

\* the alternatives of /\.(png|jpg|jpeg|webp|gif)$/i
ImageExtensions ==
    {<<".", "p", "n", "g">>, <<".", "j", "p", "g">>,
     <<".", "j", "p", "e", "g">>, <<".", "w", "e", "b", "p">>,
     <<".", "g", "i", "f">>}

\* String.prototype.startsWith, and the $ anchor on a literal
StartsWith(s, prefix) ==
    Len(s) >= Len(prefix) /\ SubSeq(s, 1, Len(prefix)) = prefix

EndsWith(s, suffix) ==
    Len(s) >= Len(suffix) /\ SubSeq(s, Len(s) - Len(suffix) + 1, Len(s)) = suffix

\* The i flag, on the letters of the extensions.
Lower(c) ==
    CASE c = "P" -> "p" [] c = "N" -> "n" [] c = "G" -> "g" [] c = "J" -> "j"
      [] c = "E" -> "e" [] c = "W" -> "w" [] c = "B" -> "b" [] c = "I" -> "i"
      [] c = "F" -> "f" [] OTHER -> c

\* /\.(png|jpg|jpeg|webp|gif)$/i.test(newName)
HasExtension(s) ==
    \E e \in ImageExtensions : EndsWith([i \in 1..Len(s) |-> Lower(s[i])], e)

\* parts[parts.length - 1] of s.split(c)
AfterLast(s, c) ==
    LET at == {i \in 1..Len(s) : s[i] = c} IN
    IF at = {} THEN s
    ELSE SubSeq(s, (CHOOSE i \in at : \A k \in at : k <= i) + 1, Len(s))

\* s.split(c)[0]
BeforeFirst(s, c) ==
    LET at == {i \in 1..Len(s) : s[i] = c} IN
    IF at = {} THEN s
    ELSE SubSeq(s, 1, (CHOOSE i \in at : \A k \in at : i <= k) - 1)

\* if (originalName.startsWith("http"))
\*     filename = urlParts[urlParts.length - 1].split("?")[0] || "image"
WorkingName(originalName) ==
    IF StartsWith(originalName, Http)
    THEN LET segment == BeforeFirst(AfterLast(originalName, "/"), "?") IN
         IF segment = <<>> THEN ImageName ELSE segment
    ELSE originalName

\* Number.prototype.toString on a non-negative integer
DigitChar(d) == <<"0", "1", "2", "3", "4", "5", "6", "7", "8", "9">>[d + 1]

RECURSIVE Digits(_)
Digits(n) ==
    IF n < 10 THEN <<DigitChar(n)>>
    ELSE Digits(n \div 10) \o <<DigitChar(n % 10)>>

IsDigit(c) == c \in {"0", "1", "2", "3", "4", "5", "6", "7", "8", "9"}
DigitValue(c) == CHOOSE d \in 0..9 : DigitChar(d) = c

\* replacePattern.replace(/TIMESTAMP/g, timestamp)
RECURSIVE ReplaceTimestamp(_, _)
ReplaceTimestamp(template, timestamp) ==
    IF template = <<>> THEN <<>>
    ELSE IF StartsWith(template, TimestampToken)
    THEN timestamp \o ReplaceTimestamp(
            SubSeq(template, Len(TimestampToken) + 1, Len(template)), timestamp)
    ELSE <<Head(template)>> \o ReplaceTimestamp(Tail(template), timestamp)

\* A pattern is the sequence of the tokens of its source. A token is an
\* anchor ("bol" ^, "eol" $), a group parenthesis ("open", "close"), or a
\* character class cs (negated if neg) to match once ("char"), zero or more
\* times ("star") or once or more ("plus"), as many times as the rest of the
\* pattern allows.
Matches(token, c) == (c \in token.cs) # token.neg

\* new RegExp(findPattern) throws on a parenthesis without its partner.
RECURSIVE Balanced(_, _)
Balanced(pattern, depth) ==
    IF pattern = <<>> THEN depth = 0
    ELSE CASE Head(pattern).k = "open" -> Balanced(Tail(pattern), depth + 1)
           [] Head(pattern).k = "close" ->
                 depth > 0 /\ Balanced(Tail(pattern), depth - 1)
           [] OTHER -> Balanced(Tail(pattern), depth)

Compiles(pattern) == Balanced(pattern, 0)

\* How many characters of s from pos on match the token's class.
Run(token, s, pos) ==
    LET stop == {k \in pos..Len(s) : ~Matches(token, s[k])} IN
    IF stop = {} THEN Len(s) - pos + 1
    ELSE (CHOOSE k \in stop : \A x \in stop : k <= x) - pos

\* The backtracking matcher: the first way, in the engine's order, to match
\* pattern[i..] at s[pos..], as <<[end, caps]>>, or <<>> if there is none.
\* open is where the group being matched began.
RECURSIVE MatchFrom(_, _, _, _, _, _), Repeat(_, _, _, _, _, _, _)
MatchFrom(pattern, s, i, pos, caps, open) ==
    IF i > Len(pattern) THEN <<[end |-> pos, caps |-> caps]>>
    ELSE LET token == pattern[i] IN
         CASE token.k = "bol" ->
                 IF pos = 1 THEN MatchFrom(pattern, s, i + 1, pos, caps, open)
                 ELSE <<>>
           [] token.k = "eol" ->
                 IF pos = Len(s) + 1
                 THEN MatchFrom(pattern, s, i + 1, pos, caps, open)
                 ELSE <<>>
           [] token.k = "open" -> MatchFrom(pattern, s, i + 1, pos, caps, pos)
           [] token.k = "close" ->
                 MatchFrom(pattern, s, i + 1, pos,
                           Append(caps, SubSeq(s, open, pos - 1)), 0)
           [] token.k = "char" ->
                 IF pos <= Len(s) /\ Matches(token, s[pos])
                 THEN MatchFrom(pattern, s, i + 1, pos + 1, caps, open)
                 ELSE <<>>
           [] OTHER -> Repeat(pattern, s, i, pos, caps, open,
                              Run(token, s, pos))

Repeat(pattern, s, i, pos, caps, open, n) ==
    IF n < (IF pattern[i].k = "plus" THEN 1 ELSE 0) THEN <<>>
    ELSE LET rest == MatchFrom(pattern, s, i + 1, pos + n, caps, open) IN
         IF rest # <<>> THEN rest
         ELSE Repeat(pattern, s, i, pos, caps, open, n - 1)

\* regex.exec(s) without the g flag: the leftmost match, as
\* <<[start, end, caps]>> (end is the place after the match), or <<>>.
RECURSIVE ExecFrom(_, _, _)
ExecFrom(pattern, s, start) ==
    IF start > Len(s) + 1 THEN <<>>
    ELSE LET found == MatchFrom(pattern, s, 1, start, <<>>, 0) IN
         IF found # <<>>
         THEN <<[start |-> start, end |-> found[1].end, caps |-> found[1].caps]>>
         ELSE ExecFrom(pattern, s, start + 1)

Exec(pattern, s) == ExecFrom(pattern, s, 1)

\* Mutant of Expand: the template is inserted as it is, $n left in place.
ExpandLiteral(template, caps) == template

\* The replacement text of String.prototype.replace: $n, or $nn, is the n-th
\* capture when the pattern has that many groups, and is left as written
\* otherwise. (The templates here hold no other $ pattern.)
RECURSIVE Expand(_, _)
Expand(template, caps) ==
    IF template = <<>> THEN <<>>
    ELSE IF Head(template) = "$" /\ Len(template) >= 2 /\ IsDigit(template[2])
    THEN LET one == DigitValue(template[2])
             two == IF Len(template) >= 3 /\ IsDigit(template[3])
                    THEN 10 * one + DigitValue(template[3]) ELSE 0
         IN IF two \in 1..Len(caps)
            THEN caps[two] \o Expand(SubSeq(template, 4, Len(template)), caps)
            ELSE IF one \in 1..Len(caps)
            THEN caps[one] \o Expand(SubSeq(template, 3, Len(template)), caps)
            ELSE <<"$">> \o Expand(Tail(template), caps)
    ELSE <<Head(template)>> \o Expand(Tail(template), caps)

\* filename.replace(regex, preparedReplacement): the match replaced, the rest
\* of the name kept.
Replace(filename, match, preparedReplacement) ==
    SubSeq(filename, 1, match.start - 1)
       \o Expand(preparedReplacement, match.caps)
       \o SubSeq(filename, match.end, Len(filename))

\* Mutant of WithExtension: ".png" is appended to every name.
WithExtensionAlways(newName) == newName \o DotPng

\* hasExtension ? newName : newName + ".png"
WithExtension(newName) ==
    IF HasExtension(newName) THEN newName ELSE newName \o DotPng

\* `localized_${timestamp}.png`
Fallback(now) == Localized \o Digits(now) \o DotPng

\* What new RegExp(findPattern) throws. No name is this value: a name is a
\* sequence of single characters.
Raised == <<"SyntaxError">>

\* The try block: the name it returns, Raised if it throws, None if it is
\* left without a return (regex.test(filename) is false).
TryReplace(filename, findPattern, replacePattern, now) ==
    IF ~Compiles(findPattern) THEN Raised
    ELSE LET found == Exec(findPattern, filename) IN
         IF found = <<>> THEN None
         ELSE WithExtension(Replace(filename, found[1],
                 ReplaceTimestamp(replacePattern, Digits(now))))

\* Mutant of Caught: no catch clause, what the try block throws goes on to
\* the caller.
CaughtRethrown(outcome) == outcome

\* catch (e) { console.warn(...) }: the exception ends there and the function
\* goes on after the if.
Caught(outcome) == IF outcome = Raised THEN None ELSE outcome

\* generateOutputFilename, now being what Date.now() returns during the call
GenerateOutputFilename(originalName, findPattern, replacePattern, now) ==
    LET filename == WorkingName(originalName)
        returned == IF findPattern # <<>> /\ replacePattern # <<>>
                    THEN Caught(TryReplace(filename, findPattern,
                                           replacePattern, now))
                    ELSE None
    IN IF returned = None THEN Fallback(now) ELSE returned

\* The name, pattern and template of the Regex Guide:
\* inhale-exhale-customneon-mintgreen.jpg, ^.*-([^-.]+)\..*$ and
\* neonLED_$1_TIMESTAMP.png
GuideName ==
    <<"i", "n", "h", "a", "l", "e", "-", "e", "x", "h",
      "a", "l", "e", "-", "c", "u", "s", "t", "o", "m",
      "n", "e", "o", "n", "-", "m", "i", "n", "t", "g",
      "r", "e", "e", "n", ".", "j", "p", "g">>

GuidePattern ==
    <<[k |-> "bol", neg |-> FALSE, cs |-> {}],
      [k |-> "star", neg |-> TRUE, cs |-> {}],
      [k |-> "char", neg |-> FALSE, cs |-> {"-"}],
      [k |-> "open", neg |-> FALSE, cs |-> {}],
      [k |-> "plus", neg |-> TRUE, cs |-> {"-", "."}],
      [k |-> "close", neg |-> FALSE, cs |-> {}],
      [k |-> "char", neg |-> FALSE, cs |-> {"."}],
      [k |-> "star", neg |-> TRUE, cs |-> {}],
      [k |-> "eol", neg |-> FALSE, cs |-> {}]>>

GuideTemplate ==
    <<"n", "e", "o", "n", "L", "E", "D", "_", "$", "1",
      "_", "T", "I", "M", "E", "S", "T", "A", "M", "P",
      ".", "p", "n", "g">>

\* Arguments of the calls: names and URLs (one with TIMESTAMP in it),
\* patterns (none, the guide's, one that matches inside the name: -([^-.]+),
\* and one that does not compile: "("), templates (none, the guide's, $1
\* alone, one with two TIMESTAMPs and an upper-case extension, and
\* $TIMESTAMP.png) and clock readings (one with the leading digits of
\* today's Date.now(), 17...).
Names ==
    {GuideName, <<"p", "l", "a", "i", "n">>,
     <<"a", "-", "b", ".", "j", "p", "g">>,
     <<"a", "-", "T", "I", "M", "E", "S", "T", "A", "M", "P", ".", "j", "p", "g">>,
     <<"h", "t", "t", "p", ":", "/", "/", "h", "/", "c", "-", "d", ".", "j", "p", "g", "?", "v", "=", "1">>,
     <<"h", "t", "t", "p", ":", "/", "/", "h", "/">>}

Patterns ==
    {<<>>, GuidePattern,
     <<[k |-> "char", neg |-> FALSE, cs |-> {"-"}],
       [k |-> "open", neg |-> FALSE, cs |-> {}],
       [k |-> "plus", neg |-> TRUE, cs |-> {"-", "."}],
       [k |-> "close", neg |-> FALSE, cs |-> {}]>>,
     <<[k |-> "open", neg |-> FALSE, cs |-> {}]>>}

Templates ==
    {<<>>, GuideTemplate, <<"$", "1">>,
     <<"T", "I", "M", "E", "S", "T", "A", "M", "P", "_", "$", "1", "_", "T", "I", "M", "E", "S", "T", "A", "M", "P", ".", "P", "N", "G">>,
     <<"$", "T", "I", "M", "E", "S", "T", "A", "M", "P", ".", "p", "n", "g">>}

Clocks == {17, 42, 907}

Calls ==
    [originalName : Names, findPattern : Patterns, replacePattern : Templates,
     now : Clocks, result : {None}]

\* A call of generateOutputFilename returns.
Generate ==
    /\ naming.result = None
    /\ naming' = [naming EXCEPT !.result =
                     Some(GenerateOutputFilename(naming.originalName,
                             naming.findPattern, naming.replacePattern,
                             naming.now))]
    /\ UNCHANGED <<jobVars, presetVars, attempt, read, request, front>>

\* ------------------------------------- the try block of processJob, alone
\* What processJob reads of the response of ai.models.generateContent: the
\* first candidate, if there is one, with its finish reason (optional) and its
\* content parts (absent, or a list of text parts, inlineData parts with data
\* and inlineData parts without), and usageMetadata (optional, each of its
\* three counts optional too).
FinishReasons == {None, Some("STOP"), Some("SAFETY")}
PartLists ==
    {None, Some(<<>>), Some(<<"text">>), Some(<<"inlineData without data">>),
     Some(<<"text", "inlineData">>)}
Candidates == [finishReason : FinishReasons, parts : PartLists]
UsageMetadata ==
    [promptTokenCount : {None, Some(2)}, candidatesTokenCount : {None, Some(1)},
     totalTokenCount : {None, Some(3)}]
Responses ==
    [candidate : {None} \cup {Some(c) : c \in Candidates},
     usageMetadata : {None} \cup {Some(m) : m \in UsageMetadata}]

\* What ctx.storage.getUrl(fileId) returns: null or the URL.
FileUrls == {None, Some("https://host/api/storage/storageId")}

\* count || 0
OrZero(count) == IF count = None THEN 0 ELSE count[1]

\* const usage = { promptTokens: response.usageMetadata?.promptTokenCount || 0, ... }
Usage(response) ==
    LET m == response.usageMetadata IN
    [promptTokens |-> IF m = None THEN 0 ELSE OrZero(m[1].promptTokenCount),
     candidateTokens |-> IF m = None THEN 0
                         ELSE OrZero(m[1].candidatesTokenCount),
     totalTokens |-> IF m = None THEN 0 ELSE OrZero(m[1].totalTokenCount)]

\* Mutant of HasImage: any part will do.
HasImageAnyPart(parts) == parts # <<>>

\* for (const part of responseParts)
\*     if (part.inlineData && part.inlineData.data) { generatedBase64 = ...; break }
HasImage(parts) == \E k \in 1..Len(parts) : parts[k] = "inlineData"

\* `Generation stopped: ${candidate.finishReason}`
StoppedMessage(finishReason) ==
    CASE finishReason = "SAFETY" -> "Generation stopped: SAFETY"

\* The catch block: setFailed({ jobId, error: error.message || "Unknown error" }).
\* stored tells whether ctx.storage.store had been called before the throw.
Throws(message, stored) ==
    [status |-> "failed", error |-> Some(CaughtMessage(message)),
     generatedFileId |-> None, promptTokens |-> None,
     candidateTokens |-> None, totalTokens |-> None, stored |-> stored]

\* The try block from the response on: what the run writes on its job, by
\* setCompleted or by setFailed, and whether it has stored a blob.
TryBlock(response, fileUrl) ==
    LET usage == Usage(response)
        candidate == response.candidate
    IN IF candidate = None
       THEN Throws("No candidates returned from Gemini", FALSE)
       ELSE IF candidate[1].finishReason \notin {None, Some("STOP")}
       THEN Throws(StoppedMessage(candidate[1].finishReason[1]), FALSE)
       ELSE IF candidate[1].parts \in {None, Some(<<>>)}
       THEN Throws("No content parts in response", FALSE)
       ELSE IF ~HasImage(candidate[1].parts[1])
       THEN Throws("No image data in response", FALSE)
       ELSE IF fileUrl = None
       THEN Throws("Failed to get storage URL", TRUE)
       ELSE [status |-> "completed", error |-> None,
             generatedFileId |-> Some(FileId),
             promptTokens |-> Some(usage.promptTokens),
             candidateTokens |-> Some(usage.candidateTokens),
             totalTokens |-> Some(usage.totalTokens), stored |-> TRUE]

Attempts == [response : Responses, fileUrl : FileUrls, result : {None}]

\* The run goes from the response to its setCompleted or setFailed.
Transform ==
    /\ attempt.result = None
    /\ attempt.response # None
    /\ attempt' = [attempt EXCEPT !.result =
                      Some(TryBlock(attempt.response, attempt.fileUrl))]
    /\ UNCHANGED <<jobVars, presetVars, naming, read, request, front>>

\* ------------------------------ the request to the transform service, alone
\* buildPrompt and the parts array, of processJob (convex/processing.ts,
\* "server") and of generateLocalizedImage (the front end, "app"). A text is
\* the sequence of its pieces: the literal runs of the template and the
\* values interpolated between them.

\* What a config field may hold for ownLogoData: nothing (undefined), null,
\* or a string.
Undefined == [t |-> "undefined", s |-> ""]
Null == [t |-> "null", s |-> ""]
Str(s) == [t |-> "string", s |-> s]
LogoData == {Undefined, Null, Str(""), Str("iVBORw0KGgo")}

\* JavaScript's truthiness, on those values
Truthy(value) == value.t = "string" /\ value.s # ""

BrandingColors == {"#3B82F6", "#000000"}
Contexts == {"", "Tokyo street style"}

\* The fields of the config that buildPrompt and the parts array read.
PromptConfigs ==
    [targetCountry : Countries, additionalContext : Contexts,
     removeBranding : BOOLEAN, addBrandingColors : BOOLEAN,
     brandingColor : BrandingColors, addOwnLogo : BOOLEAN,
     ownLogoData : LogoData]

Sides == {"server", "app"}

\* The literal runs of the two templates.
RemoveClause(side) ==
    IF side = "server"
    THEN "\n    - REMOVE BRANDING: Identify and scrub any existing logos, text, or watermarks from the original image."
    ELSE "\n    - REMOVE BRANDING: Identify and scrub any existing logos, text, or watermarks from the original image (e.g., on clothing, products, signs)."

ColorClause(side, color) ==
    IF side = "server"
    THEN <<"\n    - BRANDING COLORS: Subtly adjust the color palette using ",
           color, " as a key accent color.">>
    ELSE <<"\n    - BRANDING COLORS: Subtly adjust the color palette, lighting, or clothing to feel cohesive and stylized. Use the specific brand color ",
           color,
           " as a key accent color in the scene (e.g. ambient light, clothing detail, or props).">>

LogoClause(side) ==
    IF side = "server"
    THEN "\n    - INSERT LOGO: Composite the provided logo into the scene realistically."
    ELSE "\n    - INSERT LOGO: I have provided a second image which is a LOGO. You must realistically composite this logo into the scene (e.g., printed on a shirt, on a billboard, or on a product packaging) in a way that obeys the scene's lighting and perspective."

\* Mutant of HasLogo: the flag alone decides, as for the other two clauses.
HasLogoByFlag(config) == config.addOwnLogo

\* config.addOwnLogo && config.ownLogoData
HasLogo(config) == config.addOwnLogo /\ Truthy(config.ownLogoData)

\* let brandingInstructions = ""; if (...) brandingInstructions += ...
BrandingInstructions(side, config) ==
    (IF config.removeBranding THEN <<RemoveClause(side)>> ELSE <<>>)
       \o (IF config.addBrandingColors
           THEN ColorClause(side, config.brandingColor) ELSE <<>>)
       \o (IF HasLogo(config) THEN <<LogoClause(side)>> ELSE <<>>)

\* The template literal that buildPrompt returns. The front end's names the
\* country a third time, in its FLEXIBILITY line.
BuildPrompt(side, config) ==
    <<"Generate a new version of this image located in ",
      config.targetCountry,
      ", keeping the same context but adapting the visual elements. CORE INSTRUCTIONS: 1. CONTEXT: ",
      config.targetCountry>>
       \o (IF side = "app"
           THEN <<". 2. FLEXIBILITY: ", config.targetCountry>> ELSE <<>>)
       \o <<" BRANDING ADJUSTMENTS:">>
       \o BrandingInstructions(side, config)
       \o <<" The output should be a distinct new variation that tells the same story in a different cultural setting. Additional Context: ",
            config.additionalContext>>

\* const parts = [{ text: prompt }, { inlineData: <the source image> }];
\* if (config.addOwnLogo && config.ownLogoData) parts.push({ inlineData: ... })
Parts(side, config) ==
    <<[kind |-> "text", text |-> BuildPrompt(side, config),
       mimeType |-> "", data |-> ""],
      [kind |-> "inlineData", text |-> <<>>,
       mimeType |-> "image/jpeg", data |-> "source"]>>
       \o (IF config.addOwnLogo /\ Truthy(config.ownLogoData)
           THEN <<[kind |-> "inlineData", text |-> <<>>,
                   mimeType |-> "image/png", data |-> config.ownLogoData.s]>>
           ELSE <<>>)

Requests == [side : Sides, config : {Some(c) : c \in PromptConfigs}, sent : {None}]

\* The request is assembled: ai.models.generateContent is called with parts.
Assemble ==
    /\ request.side \in Sides
    /\ request.sent = None
    /\ request' = [request EXCEPT !.sent =
                      Some(Parts(request.side, request.config[1]))]
    /\ UNCHANGED <<jobVars, presetVars, naming, attempt, read, front>>

\* ----------------------------------------------------------- the queries
\* jobs.getById / publicJobs.getJob: the document, or null
GetJob(jobId) == IF jobId \in JobIds THEN Some(jobs[jobId]) ELSE None

\* The ids of all jobs in creation order.
Ids == [i \in 1..Len(jobs) |-> i]

Reverse(s) == [k \in 1..Len(s) |-> s[Len(s) + 1 - k]]

\* .withIndex("by_status", (q) => q.eq("status", status)).collect()
ByStatus(status) == SelectSeq(Ids, LAMBDA i : jobs[i].status = status)

\* .withIndex("by_createdAt").order("desc").collect()
NewestFirst == Reverse(Ids)

\* Mutant of Slice: the end index is taken as included.
SliceInclusive(s, offset, limit) ==
    SubSeq(s, offset + 1,
           IF offset + limit + 1 < Len(s) THEN offset + limit + 1 ELSE Len(s))

\* allJobs.slice(offset, offset + limit)
Slice(s, offset, limit) ==
    SubSeq(s, offset + 1, IF offset + limit < Len(s) THEN offset + limit ELSE Len(s))

\* args.limit ?? 50 of list, args.limit ?? 10 of getRecentJobsSummary, and
\* the .take(100) of the latter
DefaultLimit == 50
DefaultRecent == 10
RecentWindow == 100

\* jobs.list / publicJobs.listJobs: the jobs by their ids. The batchId, when
\* there is one, picks the index, and the status is then not looked at.
ListJobs(status, batchId, limit, offset) ==
    LET lim == IF limit = None THEN DefaultLimit ELSE limit[1]
        off == IF offset = None THEN 0 ELSE offset[1]
        allJobs == IF batchId # None THEN GetByBatchId(batchId[1])
                   ELSE IF status # None THEN ByStatus(status[1])
                   ELSE NewestFirst
    IN [jobs |-> Slice(allJobs, off, lim), total |-> Len(allJobs),
        limit |-> lim, offset |-> off]

\* publicJobs.getRecentJobsSummary
GetRecentJobsSummary(limit) ==
    LET allJobs == Slice(NewestFirst, 0, RecentWindow)
        lim == IF limit = None THEN DefaultRecent ELSE limit[1]
    IN [total |-> Len(allJobs),
        completed |-> CountStatus(allJobs, "completed"),
        failed |-> CountStatus(allJobs, "failed"),
        pending |-> CountStatus(allJobs, "pending"),
        processing |-> CountStatus(allJobs, "processing"),
        totalTokens |-> SumTokens(allJobs),
        recentJobs |-> Slice(allJobs, 0, lim)]

\* What .unique() throws when the index holds more than one row.
NotUnique == "unique() query returned more than one result"

\* presets.getByName / publicPresets.getPreset: the row, null, or the
\* exception of .unique()
GetPreset(name) ==
    IF ByName(name) = {} THEN [value |-> None, error |-> None]
    ELSE IF Cardinality(ByName(name)) > 1
    THEN [value |-> None, error |-> Some(NotUnique)]
    ELSE [value |-> Some(presets[CHOOSE i \in ByName(name) : TRUE]),
          error |-> None]

\* publicPresets.isPresetNameAvailable: return !existing
IsPresetNameAvailable(name) ==
    IF GetPreset(name).error # None
    THEN [value |-> FALSE, error |-> GetPreset(name).error]
    ELSE [value |-> GetPreset(name).value = None, error |-> None]

\* presets.list / publicPresets.listPresets: newest first, summaries
ListPresets ==
    [k \in 1..Len(presets) |->
        LET row == presets[Len(presets) + 1 - k] IN
        [name |-> row.name, targetCountry |-> row.targetCountry,
         createdAt |-> row.createdAt, updatedAt |-> row.updatedAt]]

\* jsonResponse(data, status = 200), errorResponse(message, status = 400)
JsonResponse(data) == [status |-> 200, body |-> data]
ErrorResponse(message, status) ==
    [status |-> status, body |-> [success |-> FALSE, error |-> message]]

\* GET /api/jobs/by-id?jobId=...
JobByIdResponse(jobId) ==
    IF jobId = None THEN ErrorResponse("Job ID is required", 400)
    ELSE IF GetJob(jobId[1]) = None THEN ErrorResponse("Job not found", 404)
    ELSE JsonResponse([job |-> [jobId |-> jobId[1], doc |-> GetJob(jobId[1])[1]]])

\* GET /api/jobs/batch?batchId=...: the two queries read the same store when
\* no mutation comes between them.
JobsBatchResponse(batchId) ==
    IF batchId = None THEN ErrorResponse("Batch ID is required", 400)
    ELSE JsonResponse([batchId |-> batchId[1],
                       jobs |-> BatchResults(GetByBatchId(batchId[1])),
                       summary |-> GetBatchSummary(batchId[1])])

\* The queries a caller may send, with the arguments each takes.
ListLimits == {None, Some(1)}
ListOffsets == {None, Some(1)}
ReadArgs(op) ==
    CASE op \in {"getJob", "GET /api/jobs/by-id"} ->
            {[NoArgs EXCEPT !.jobId = j] : j \in 1..MaxOwnJobs + 1}
      [] op \in {"getJobsByBatch", "getBatchSummary", "GET /api/jobs/batch"} ->
            {[NoArgs EXCEPT !.batchId = Some(b)] : b \in 1..MaxBatches}
      [] op = "listJobs" ->
            {[NoArgs EXCEPT !.status = s, !.batchId = b, !.limit = l, !.offset = o] :
                s \in {None} \cup {Some(x) : x \in Statuses},
                b \in {None} \cup {Some(x) : x \in 1..MaxBatches},
                l \in ListLimits, o \in ListOffsets}
      [] op = "getRecentJobsSummary" ->
            {[NoArgs EXCEPT !.limit = l] : l \in ListLimits}
      [] op \in {"getPreset", "isPresetNameAvailable"} ->
            {[NoArgs EXCEPT !.name = n] : n \in PresetNames}
      [] op = "listPresets" -> {NoArgs}

ReadOps ==
    {"getJob", "getJobsByBatch", "listJobs", "getBatchSummary",
     "getRecentJobsSummary", "getPreset", "listPresets",
     "isPresetNameAvailable", "GET /api/jobs/by-id", "GET /api/jobs/batch"}

\* Mutant of QueryResult: a call with the arguments of the call before it is
\* answered with nothing.
QueryResultOnce(op, args) ==
    IF read.op = op /\ read.args = args THEN None ELSE Some(op)

\* What the query answers in the present state of the stores.
QueryResult(op, args) ==
    Some(CASE op = "getJob" -> GetJob(args.jobId)
           [] op = "getJobsByBatch" -> GetByBatchId(args.batchId[1])
           [] op = "listJobs" ->
                 ListJobs(args.status, args.batchId, args.limit, args.offset)
           [] op = "getBatchSummary" -> GetBatchSummary(args.batchId[1])
           [] op = "getRecentJobsSummary" -> GetRecentJobsSummary(args.limit)
           [] op = "getPreset" -> GetPreset(args.name)
           [] op = "listPresets" -> ListPresets
           [] op = "isPresetNameAvailable" -> IsPresetNameAvailable(args.name)
           [] op = "GET /api/jobs/by-id" -> JobByIdResponse(Some(args.jobId))
           [] op = "GET /api/jobs/batch" -> JobsBatchResponse(args.batchId))

\* A query runs: one read-only transaction, whose answer goes to the caller.
Query ==
    /\ \E op \in ReadOps : \E args \in ReadArgs(op) :
          read' = [op |-> op, args |-> args, result |-> QueryResult(op, args)]
    /\ UNCHANGED <<jobVars, presetVars, naming, attempt, request, front>>

\* The history list pages through listJobs: page k is asked at offset
\* (k - 1) * pageSize, under one filter, while the store stays as it is.
PageSizes == 1..MaxPage
StatusFilters == {None} \cup {Some(x) : x \in Statuses}
BatchFilters == {None} \cup {Some(x) : x \in 1..MaxBatches}

Pages(status, batchId, pageSize) ==
    [k \in 1..(Len(jobs) + 1) |->
        ListJobs(status, batchId, Some(pageSize), Some((k - 1) * pageSize))]

Browsings ==
    {[op |-> "pages",
      args |-> [NoArgs EXCEPT !.status = s, !.batchId = b, !.limit = Some(l)],
      result |-> None] :
        s \in StatusFilters, b \in BatchFilters, l \in PageSizes}

\* Every page of a browsing has been answered.
Browse ==
    /\ read.op = "pages"
    /\ read.result = None
    /\ read' = [read EXCEPT !.result =
                   Some(Pages(read.args.status, read.args.batchId,
                              read.args.limit[1]))]
    /\ UNCHANGED <<jobVars, presetVars, naming, attempt, request, front>>

\* Stores for the queries to read: up to MaxOwnJobs jobs, each as jobs.create
\* and then setProcessing, setFailed or setCompleted leave it, and up to
\* MaxPresets presets of different names as presets.create leaves them.
JobRows ==
    UNION {{NewJob(b), PatchProcessing(NewJob(b)),
            PatchFailed(PatchProcessing(NewJob(b)), "Unknown error"),
            PatchCompleted(PatchProcessing(NewJob(b)), FileId, DerivedName,
                           Some(3))} :
           b \in {None} \cup {Some(k) : k \in 1..MaxBatchArgs}}
JobTables == UNION {[1..n -> JobRows] : n \in 0..MaxOwnJobs}
\* The stores the pages are read from: up to MaxJobs jobs.
PageTables == UNION {[1..n -> JobRows] : n \in 0..MaxJobs}
PresetTables ==
    {<<>>} \cup {<<Row(n, InlineConfig, 1)>> : n \in PresetNames}
       \cup {<<Row(pair[1], InlineConfig, 1), Row(pair[2], InlineConfig, 2)>> :
                pair \in {x \in PresetNames \X PresetNames : x[1] # x[2]}}

\* ------------------------------------------------ the front end: App.tsx
\* A task is a selected file: its status and the id of the job created for
\* it last (0: none).
NewTask == [status |-> "IDLE", convexJobId |-> 0]

\* Tasks that processQueue does not skip.
Ready(task) == task.status \in {"IDLE", "FAILED"}

\* Messages of what is thrown while a task is processed: by the transform
\* service or the upload, and by createJob when the arguments are refused.
QueueErrors == {"", "No content generated. Finish Reason: SAFETY"}

\* The jobs that a call of processQueue has yet to create.
ToCreate(run) ==
    IF run.pc = "idle" THEN 0
    ELSE Cardinality({k \in 1..Len(run.seen) :
            /\ Ready(run.seen[k])
            /\ \/ k > run.at
               \/ k = run.at /\ run.pc \in {"q_ensureApiKey", "q_next", "q_createJob"}})

RECURSIVE Planned(_)
Planned(r) == IF r = 0 THEN 0 ELSE ToCreate(front.runs[r]) + Planned(r - 1)

\* handleFilesSelected: setTasks(prev => [...prev, ...newTasks])
FilesSelected ==
    /\ Len(front.tasks) < MaxTasks
    /\ front' = [front EXCEPT !.tasks = Append(@, NewTask)]
    /\ UNCHANGED <<jobVars, presetVars, naming, attempt, read, request>>

\* A click on the start button, enabled when isProcessing is false and a task
\* is IDLE: processQueue is called with the tasks of this render. With the
\* key ready it goes on to setIsProcessing(true) and the batch id at once;
\* otherwise it first awaits ensureApiKey() (no custom key is typed).
ProcessQueue(r) ==
    /\ front.runs[r].pc = "idle"
    /\ \A q \in 1..(r - 1) : front.runs[q].pc # "idle"
    /\ ~front.isProcessing
    /\ \E i \in 1..Len(front.tasks) : front.tasks[i].status = "IDLE"
    /\ Len(jobs) + Planned(MaxRuns) + Len(SelectSeq(front.tasks, Ready)) <= MaxJobs
    /\ IF front.apiKeyReady
       THEN /\ nextBatch <= MaxBatches
            /\ front' = [front EXCEPT
                  !.isProcessing = TRUE,
                  !.runs[r] = [Stopped EXCEPT !.pc = "q_next", !.at = 1,
                                  !.seen = front.tasks, !.batchId = nextBatch]]
            /\ nextBatch' = nextBatch + 1
       ELSE /\ front' = [front EXCEPT
                  !.runs[r] = [Stopped EXCEPT !.pc = "q_ensureApiKey", !.at = 1,
                                  !.seen = front.tasks]]
            /\ UNCHANGED nextBatch
    /\ UNCHANGED <<jobs, procs, presetVars, naming, attempt, read, request>>

\* await ensureApiKey() returns: setApiKeyReady(true); setIsProcessing(true);
\* const batchId = ...
Q_EnsureApiKey(r) ==
    /\ front.runs[r].pc = "q_ensureApiKey"
    /\ nextBatch <= MaxBatches
    /\ front' = [front EXCEPT !.apiKeyReady = TRUE, !.isProcessing = TRUE,
                              !.runs[r].pc = "q_next",
                              !.runs[r].batchId = nextBatch]
    /\ nextBatch' = nextBatch + 1
    /\ UNCHANGED <<jobs, procs, presetVars, naming, attempt, read, request>>

\* for (const task of tasks) { if (task.status !== IDLE && task.status !==
\* FAILED) continue; ... }, and setIsProcessing(false) after the loop. The
\* loop reads the tasks its call was made with.
Q_Next(r) ==
    LET run == front.runs[r] IN
    /\ run.pc = "q_next"
    /\ front' =
          IF run.at > Len(run.seen)
          THEN [front EXCEPT !.isProcessing = FALSE, !.runs[r] = Stopped]
          ELSE IF Ready(run.seen[run.at])
          THEN [front EXCEPT !.runs[r].pc = "q_createJob",
                             !.runs[r].convexJobId = 0]
          ELSE [front EXCEPT !.runs[r].at = @ + 1]
    /\ UNCHANGED <<jobVars, presetVars, naming, attempt, read, request>>

\* convexJobId = await createJob({...}); setTasks(... PROCESSING,
\* convexJobId ...), or createJob throws.
Q_CreateJob(r) ==
    LET run == front.runs[r] IN
    /\ run.pc = "q_createJob"
    /\ \/ /\ jobs' = Append(jobs, NewPublicJob(Some(run.batchId), SourceName))
          /\ front' = [front EXCEPT
                !.runs[r].pc = "q_setJobProcessing",
                !.runs[r].convexJobId = Len(jobs) + 1,
                !.tasks[run.at] = [status |-> "PROCESSING",
                                   convexJobId |-> Len(jobs) + 1]]
       \/ /\ \E e \in QueueErrors :
                front' = [front EXCEPT !.runs[r].pc = "q_catch",
                                       !.runs[r].msg = e]
          /\ UNCHANGED jobs
    /\ UNCHANGED <<procs, nextBatch, presetVars, naming, attempt, read, request>>

\* await setJobProcessing({ jobId: convexJobId })
Q_SetJobProcessing(r) ==
    LET run == front.runs[r] IN
    /\ run.pc = "q_setJobProcessing"
    /\ jobs' = [jobs EXCEPT ![run.convexJobId] = PatchProcessing(@)]
    /\ front' = [front EXCEPT !.runs[r].pc = "q_generate"]
    /\ UNCHANGED <<procs, nextBatch, presetVars, naming, attempt, read, request>>

\* fileToBase64, generateLocalizedImage, generateUploadUrl and the upload:
\* they return, or one of them throws.
Q_Generate(r) ==
    /\ front.runs[r].pc = "q_generate"
    /\ \/ front' = [front EXCEPT !.runs[r].pc = "q_setJobCompleted"]
       \/ \E e \in QueueErrors :
             front' = [front EXCEPT !.runs[r].pc = "q_catch", !.runs[r].msg = e]
    /\ UNCHANGED <<jobVars, presetVars, naming, attempt, read, request>>

\* await setJobCompletedWithFile({...}); setTasks(... COMPLETED ...)
Q_SetJobCompleted(r) ==
    LET run == front.runs[r] IN
    /\ run.pc = "q_setJobCompleted"
    /\ \E t \in ClientTokens :
          jobs' = [jobs EXCEPT ![run.convexJobId] =
                      PatchCompleted(@, FileId, DerivedName, t)]
    /\ front' = [front EXCEPT !.runs[r].pc = "q_next", !.runs[r].at = @ + 1,
                              !.runs[r].convexJobId = 0,
                              !.tasks[run.at].status = "COMPLETED"]
    /\ UNCHANGED <<procs, nextBatch, presetVars, naming, attempt, read, request>>

\* setJobFailed({ jobId: convexJobId, error: error.message || 'Processing failed' })
CaughtJob(job, message) ==
    PatchFailed(job, IF message = "" THEN "Processing failed" ELSE message)

\* catch (error) { if (convexJobId) { await setJobFailed(...) };
\* setTasks(... FAILED ...) }
Q_Catch(r) ==
    LET run == front.runs[r] IN
    /\ run.pc = "q_catch"
    /\ jobs' = IF run.convexJobId # 0
               THEN [jobs EXCEPT ![run.convexJobId] = CaughtJob(@, run.msg)]
               ELSE jobs
    /\ front' = [front EXCEPT !.runs[r].pc = "q_next", !.runs[r].at = @ + 1,
                              !.runs[r].convexJobId = 0, !.runs[r].msg = "",
                              !.tasks[run.at].status = "FAILED"]
    /\ UNCHANGED <<procs, nextBatch, presetVars, naming, attempt, read, request>>

\* The steps of the calls of processQueue.
Queue(r) ==
    \/ ProcessQueue(r)
    \/ Q_EnsureApiKey(r)
    \/ Q_Next(r)
    \/ Q_CreateJob(r)
    \/ Q_SetJobProcessing(r)
    \/ Q_Generate(r)
    \/ Q_SetJobCompleted(r)
    \/ Q_Catch(r)

\* ------------------------------------------------------- specifications
Orchestrator(p) ==
    \/ PJ_Load(p)
    \/ PJ_SetProcessing(p)
    \/ PJ_Body(p)
    \/ PJ_SetCompleted(p)
    \/ PJ_SetFailed(p)
    \/ PB_Query(p)

Facade(p) ==
    \/ HS_Start(p)
    \/ HS_ReadJob(p)
    \/ HB_Start(p)
    \/ HB_Create(p)
    \/ HB_ReadJobs(p)
    \/ HB_ReadSummary(p)
    \/ Respond(p)

Client ==
    \/ CreateJob
    \/ SetJobProcessing
    \/ SetJobCompleted
    \/ SetJobCompletedWithFile
    \/ SetJobFailed

\* The job store and the Orchestrator under every caller: front-end clients
\* and the internal functions invoked on their own.
Next ==
    \/ \E p \in 1..MaxRacing : Orchestrator(p)
    \/ \E p \in 1..MaxRacing : StartProcessJob(p) \/ StartProcessBatch(p)
    \/ \E p \in 1..MaxRacing : Return(p)
    \/ Create
    \/ Client

Spec == Init /\ [][Next]_vars

\* The internal functions invoked on their own, any number of them at once,
\* and no front-end client: only processJob then writes a job's status.
NextCalls ==
    \/ \E p \in Procs : Orchestrator(p)
    \/ \E p \in Procs : StartProcessJob(p) \/ StartProcessBatch(p)
    \/ \E p \in Procs : Return(p)
    \/ Create

SpecCalls == Init /\ [][NextCalls]_vars

\* The HTTP facade alone: no front-end client, no action invoked on its own.
NextHttp == \E p \in Procs : Orchestrator(p) \/ Facade(p)

SpecHttp == Init /\ [][NextHttp]_vars

\* The preset store under its callers: front-end clients, internal callers
\* and the HTTP endpoint.
NextPresets ==
    \/ PresetsCreate
    \/ CreatePreset
    \/ PresetsUpdate
    \/ UpdatePreset
    \/ PresetsDeleteByName
    \/ DeletePreset
    \/ PostPreset
    \/ Ack

SpecPresets == Init /\ [][NextPresets]_vars

\* Jobs created from presets by POST /api/process/single and run, while the
\* presets are created, updated and deleted.
NextSnapshot ==
    \/ PresetEdit
    \/ \E p \in 1..MaxRacing :
          \/ HSP_Start(p)
          \/ HSP_Create(p)
          \/ PJ_Load(p)
          \/ PJ_SetProcessing(p)
          \/ PJ_Body(p)
          \/ PJ_SetCompleted(p)
          \/ PJ_SetFailed(p)
          \/ HS_ReadJob(p)
          \/ Respond(p)

SpecSnapshot == Init /\ [][NextSnapshot]_vars

\* generateOutputFilename on its own: every call of Calls, then its result.
InitNaming ==
    /\ jobs = <<>>
    /\ procs = [p \in Procs |-> Idle]
    /\ nextBatch = 1
    /\ presets = <<>>
    /\ reply = None
    /\ naming \in Calls
    /\ attempt = NoAttempt
    /\ read = NoRead
    /\ front = NoRun
    /\ request = NoRequest

NextNaming == Generate

SpecNaming == InitNaming /\ [][NextNaming]_vars

\* The try block of processJob on its own: every response of Responses and
\* both answers of getUrl, then what the run writes.
InitTransform ==
    /\ jobs = <<>>
    /\ procs = [p \in Procs |-> Idle]
    /\ nextBatch = 1
    /\ presets = <<>>
    /\ reply = None
    /\ naming = NoCall
    /\ attempt \in Attempts
    /\ read = NoRead
    /\ front = NoRun
    /\ request = NoRequest

NextTransform == Transform

SpecTransform == InitTransform /\ [][NextTransform]_vars

\* The queries on their own, over the stores of JobTables and PresetTables.
InitReads ==
    /\ jobs \in JobTables
    /\ procs = [p \in Procs |-> Idle]
    /\ nextBatch = 1
    /\ presets \in PresetTables
    /\ reply = None
    /\ naming = NoCall
    /\ attempt = NoAttempt
    /\ read = NoRead
    /\ front = NoRun
    /\ request = NoRequest

NextReads == Query

SpecReads == InitReads /\ [][NextReads]_vars

\* POST /api/process/single and POST /api/process/batch with their jobs run,
\* over the preset stores of PresetTables.
InitRequests ==
    /\ jobs = <<>>
    /\ procs = [p \in Procs |-> Idle]
    /\ nextBatch = 1
    /\ presets \in PresetTables
    /\ reply = None
    /\ naming = NoCall
    /\ attempt = NoAttempt
    /\ read = NoRead
    /\ front = NoRun
    /\ request = NoRequest

NextRequests ==
    \E p \in Procs :
       \/ HSP_Start(p)
       \/ HSP_Create(p)
       \/ HBP_Start(p)
       \/ HB_Create(p)
       \/ Orchestrator(p)
       \/ HS_ReadJob(p)
       \/ HB_ReadJobs(p)
       \/ HB_ReadSummary(p)
       \/ Respond(p)

SpecRequests == InitRequests /\ [][NextRequests]_vars

\* The request to the transform service on its own: every config of
\* PromptConfigs on either side, then the parts sent.
InitPrompt ==
    /\ jobs = <<>>
    /\ procs = [p \in Procs |-> Idle]
    /\ nextBatch = 1
    /\ presets = <<>>
    /\ reply = None
    /\ naming = NoCall
    /\ attempt = NoAttempt
    /\ read = NoRead
    /\ front = NoRun
    /\ request \in Requests

NextPrompt == Assemble

SpecPrompt == InitPrompt /\ [][NextPrompt]_vars

\* The history list on its own: every store of PageTables, every filter and
\* page size, then the pages.
InitPages ==
    /\ jobs \in PageTables
    /\ procs = [p \in Procs |-> Idle]
    /\ nextBatch = 1
    /\ presets = <<>>
    /\ reply = None
    /\ naming = NoCall
    /\ attempt = NoAttempt
    /\ read \in Browsings
    /\ front = NoRun
    /\ request = NoRequest

NextPages == Browse

SpecPages == InitPages /\ [][NextPages]_vars

\* The front end alone with the job store: files are selected, processQueue
\* runs, and nobody else writes to the jobs.
NextQueue ==
    \/ FilesSelected
    \/ \E r \in 1..MaxRuns : Queue(r)

SpecQueue == Init /\ [][NextQueue]_vars

\* An action that has started goes on: each await of processJob and
\* processBatch (a job store transaction, or an external call that returns or
\* raises) comes back, so no request stays forever at a step it can take.
SpecHttpFair == SpecHttp /\ \A p \in Procs : WF_vars(Orchestrator(p))

\* ================================================================ claims
LegalTransitions ==
    {<<"pending", "processing">>, <<"processing", "completed">>,
     <<"processing", "failed">>}

NonEmpty(o) == IsSet(o) /\ o[1] # ""

\* C1: every change of a job's status is pending->processing,
\* processing->completed or processing->failed; nothing leaves a terminal
\* status and nothing skips processing.
C1_OnlyLegalTransitions ==
    [][\A j \in JobIds :
          jobs'[j].status # jobs[j].status
             => <<jobs[j].status, jobs'[j].status>> \in LegalTransitions]_vars

\* C2: a job's error is set (non-empty) exactly when its status is failed.
C2_ErrorIffFailed ==
    \A j \in JobIds : NonEmpty(jobs[j].error) <=> jobs[j].status = "failed"

\* C3: a job's artifact reference and output filename are set exactly when
\* its status is completed.
C3_ArtifactIffCompleted ==
    \A j \in JobIds :
       /\ IsSet(jobs[j].generatedFileId) <=> jobs[j].status = "completed"
       /\ IsSet(jobs[j].generatedFileName) <=> jobs[j].status = "completed"

\* C4: a job's completedAt is set exactly when its status is completed or
\* failed.
C4_CompletedAtIffTerminal ==
    \A j \in JobIds : IsSet(jobs[j].completedAt) <=> jobs[j].status \in Terminal

\* C5: when a step of processJob's try block raises, the invocation records
\* the job as failed with a non-empty message, and not as completed.
C5_RaisedIsRecordedFailed ==
    [][\A p \in Procs :
          (procs[p].pc = "j_setFailed" /\ procs'[p] # procs[p])
             => /\ jobs'[procs[p].jobId].status = "failed"
                /\ NonEmpty(jobs'[procs[p].jobId].error)]_vars

\* An empty-message exception was caught and recorded.
C5_Witness ==
    \E j \in JobIds :
       jobs[j].status = "failed" /\ jobs[j].error = Some("Unknown error")

\* The batch request of p has its response ready.
BatchAnswered(p) ==
    /\ procs[p].kind = "httpBatch"
    /\ procs[p].pc = "h_done"
    /\ procs[p].urls > 0

\* C6: a batch request over n urls whose jobs in F were rejected and whose
\* other jobs succeeded answers success, with total = n, failed = |F|,
\* completed = n - |F|, nothing pending or processing, and a results entry
\* failed with a non-empty error exactly for the jobs in F.
C6_BatchSurvivesFailures ==
    \A p \in Procs :
       BatchAnswered(p) =>
          LET c == procs[p]
              r == c.response[1]
              s == GetBatchSummary(c.batchId)
              nF == Cardinality(c.rejected)
          IN /\ r.success
             /\ r.summary.total = c.urls
             /\ r.summary.failed = nF
             /\ r.summary.completed = c.urls - nF
             /\ s.total = c.urls /\ s.failed = nF /\ s.completed = c.urls - nF
             /\ s.pending = 0 /\ s.processing = 0
             /\ Len(r.results) = c.urls
             /\ \A k \in 1..Len(r.results) :
                   /\ (r.results[k].status = "failed" /\ NonEmpty(r.results[k].error))
                         <=> r.results[k].jobId \in c.rejected
                   /\ r.results[k].jobId \notin c.rejected
                         => r.results[k].status = "completed"

\* Three urls, the second one rejected, the response ready.
C6_Witness ==
    \E p \in Procs :
       /\ BatchAnswered(p)
       /\ procs[p].urls = 3
       /\ procs[p].rejected = {GetByBatchId(procs[p].batchId)[2]}
       /\ procs[p].response[1].success

\* Batch ids in use, and one more.
BatchIds == 1..(MaxBatches + MaxBatchArgs)

CompletedOf(ids) == SelectSeq(ids, LAMBDA i : jobs[i].status = "completed")

\* C7: the totalTokens of a batch summary is the sum over the completed jobs
\* of the batch only.
C7_TokensOfCompletedOnly ==
    \A b \in BatchIds :
       GetBatchSummary(b).totalTokens = SumTokens(CompletedOf(GetByBatchId(b)))

\* C8: the four status counts of a batch summary add up to its total, the
\* number of jobs carrying the batch id.
C8_CountsAddUp ==
    \A b \in BatchIds :
       LET s == GetBatchSummary(b) IN
       /\ s.completed + s.failed + s.pending + s.processing = s.total
       /\ s.total = Cardinality({j \in JobIds : jobs[j].batchId = Some(b)})

\* A batch of two with one job failed and one processing, beside a job of
\* no batch or an empty batch.
C8_Witness ==
    \E b \in BatchIds :
       LET s == GetBatchSummary(b) IN
       s.total = 2 /\ s.failed = 1 /\ s.processing = 1

\* The request p runs processJob for a batch and has marked its job.
Marked(p) == procs[p].pc \in {"j_body", "j_setCompleted", "j_setFailed"}

\* C9: within one processBatch the pending jobs run one at a time in
\* creation order: while one job is being run every earlier job of the batch
\* is completed or failed and every later one is still pending.
C9_BatchRunsInArrivalOrder ==
    \A p \in Procs :
       (procs[p].kind = "httpBatch" /\ procs[p].pc \in {"j_load", "j_setProcessing"} \cup {"j_body", "j_setCompleted", "j_setFailed"})
          => \A j \in JobIds :
                jobs[j].batchId = Some(procs[p].batchId)
                   => /\ j < procs[p].jobId => jobs[j].status \in Terminal
                      /\ j > procs[p].jobId => jobs[j].status = "pending"
                      /\ j = procs[p].jobId =>
                            jobs[j].status = IF Marked(p) THEN "processing"
                                             ELSE "pending"

\* The second of three jobs is being run.
C9_Witness ==
    \E p \in Procs :
       /\ procs[p].kind = "httpBatch" /\ Marked(p)
       /\ procs[p].urls = 3
       /\ procs[p].jobId = GetByBatchId(procs[p].batchId)[2]

\* C10: at most one job of a batch is processing at any time.
C10_OneProcessingPerBatch ==
    \A b \in BatchIds : GetBatchSummary(b).processing <= 1

\* C11: over any interleaving of processJob and processBatch calls at most
\* one Orchestrator run takes place for a given job id. A run's first write
\* marks its job processing and nothing sets a job back to pending, so where
\* only runs write the status a second run of a job is a run that marks a
\* job some run has marked before it.
C11_OneRunPerJob ==
    [][\A p \in Procs :
          (procs[p].pc = "j_setProcessing" /\ procs'[p].pc = "j_body")
             => jobs[procs[p].jobId].status = "pending"]_vars

RunPcs == {"j_setProcessing", "j_body", "j_setCompleted", "j_setFailed"}

RunningOn(j) == {p \in Procs : procs[p].jobId = j /\ procs[p].pc \in RunPcs}

\* C13: every Orchestrator run that starts on an existing job ends with the
\* job completed or failed, and no job is left processing after its run has
\* ended.
C13_RunsEndTerminal ==
    /\ \A p \in Procs : (procs[p].pc \in RunPcs) ~> (procs[p].pc \notin RunPcs)
    /\ [][\A p \in Procs : \A j \in JobIds :
             (p \in RunningOn(j) /\ p \notin RunningOn(j)')
                => jobs'[j].status \in Terminal]_vars
    /\ [](\A j \in JobIds : jobs[j].status = "processing" => RunningOn(j) # {})

\* The processJob of a request has returned, with its job failed.
C13_Witness ==
    \E p \in Procs :
       /\ procs[p].pc = "s_readJob"
       /\ RunningOn(procs[p].jobId) = {}
       /\ jobs[procs[p].jobId].status = "failed"

\* What a job keeps of its creation.
Snapshot(job) ==
    [config |-> job.config, sourceUrl |-> job.sourceUrl, batchId |-> job.batchId,
     presetName |-> job.presetName, createdAt |-> job.createdAt]

\* C14: a job's config snapshot is fixed at creation: no later operation
\* (update or delete of the originating preset, creation of other presets, a
\* job status mutation) changes the config, sourceUrl, batchId, presetName
\* or createdAt of an existing job.
C14_SnapshotFixed ==
    [][\A j \in JobIds : Snapshot(jobs'[j]) = Snapshot(jobs[j])]_vars

\* A job created from preset "A" has completed; the preset has been given
\* another config since, which the job does not have.
C14_Witness ==
    \E j \in JobIds :
       /\ jobs[j].status = "completed"
       /\ jobs[j].presetName = Some("A")
       /\ ByName("A") # {}
       /\ \A i \in ByName("A") :
             /\ ConfigOf(presets[i]) # jobs[j].config
             /\ presets[i].updatedAt # presets[i].createdAt

\* A preset operation is called and answered in this step.
Called(ops) == reply = None /\ reply' # None /\ reply'[1].op \in ops

\* The row of that name in a presets table.
RowOf(table, name) == table[CHOOSE i \in 1..Len(table) : table[i].name = name]

\* C15: create(name, config) when a preset of that name exists fails with the
\* duplicate-name error and leaves the preset store as it was.
C15_DuplicateCreateFails ==
    [][(Called({"create", "createPreset"}) /\ ByName(reply'[1].name) # {})
          => /\ reply'[1].error = Some(DuplicateName(reply'[1].name))
             /\ presets' = presets]_vars

\* C16: at most one stored preset has any given name, in every reachable
\* state, whatever the interleaving of the create calls.
C16_NamesUnique ==
    \A i, k \in 1..Len(presets) : presets[i].name = presets[k].name => i = k

\* A create for a name already stored has been refused, next to another
\* preset; the name is still stored once.
C16_Witness ==
    /\ reply # None
    /\ reply[1].op \in {"create", "POST /api/presets"}
    /\ reply[1].error = Some(DuplicateName(reply[1].name))
    /\ Cardinality(ByName(reply[1].name)) = 1
    /\ Len(presets) = MaxPresets

\* C17: after a successful update(name, config) the preset's configuration
\* fields are exactly those of config, an omitted optional field being absent,
\* and its name and createdAt are as before.
C17_UpdateReplacesConfig ==
    [][(Called({"update", "updatePreset"}) /\ reply'[1].error = None)
          => LET old == RowOf(presets, reply'[1].name)
                 new == RowOf(presets', reply'[1].name)
             IN /\ ConfigOf(new) = reply'[1].config[1]
                /\ new.name = old.name
                /\ new.createdAt = old.createdAt]_vars

\* C18: update and delete for a name that no stored preset has fail with the
\* not-found error and leave the preset store as it was.
C18_MissingNameNotFound ==
    [][(Called({"update", "updatePreset", "deleteByName", "deletePreset"})
           /\ ByName(reply'[1].name) = {})
          => /\ reply'[1].error = Some(NotFound(reply'[1].name))
             /\ presets' = presets]_vars

\* An update of a name not stored has been refused, other presets stored.
C18_Witness ==
    /\ reply # None
    /\ reply[1].op \in {"update", "updatePreset"}
    /\ reply[1].error = Some(NotFound(reply[1].name))
    /\ ByName(reply[1].name) = {}
    /\ presets # <<>>

\* C19: creating a preset whose name is empty or blank is rejected on every
\* creation path, and the preset store is left as it was.
C19_BlankNameRejected ==
    [][(Called({"create", "createPreset", "POST /api/presets"})
           /\ Trim(reply'[1].name) = "")
          => reply'[1].error # None /\ presets' = presets]_vars

\* The call of naming has returned, its pattern compiled and matched the
\* working name.
MatchedCall ==
    /\ naming.result # None
    /\ naming.findPattern # <<>>
    /\ Compiles(naming.findPattern)
    /\ Exec(naming.findPattern, WorkingName(naming.originalName)) # <<>>

\* The working name with the match replaced by the template, TIMESTAMP in it
\* replaced by the clock reading and then $n by the n-th capture.
Replaced ==
    Replace(WorkingName(naming.originalName),
            Exec(naming.findPattern, WorkingName(naming.originalName))[1],
            ReplaceTimestamp(naming.replacePattern, Digits(naming.now)))

GuideCall ==
    /\ naming.originalName = GuideName
    /\ naming.findPattern = GuidePattern
    /\ naming.replacePattern = GuideTemplate

\* neonLED_mintgreen_<clock>.png
GuideResult ==
    <<"n", "e", "o", "n", "L", "E", "D", "_", "m", "i", "n", "t", "g", "r", "e",
      "e", "n", "_">> \o Digits(naming.now) \o DotPng

C21_NeverRaises ==
    naming.result # None =>
       /\ naming.result[1] # Raised
       /\ (\/ ~Compiles(naming.findPattern)
           \/ Exec(naming.findPattern, WorkingName(naming.originalName)) = <<>>)
          => naming.result[1] = Fallback(naming.now)

\* A call with a template and the pattern "(" has returned.
C21_Witness ==
    /\ naming.result # None
    /\ naming.replacePattern # <<>>
    /\ naming.findPattern # <<>>
    /\ ~Compiles(naming.findPattern)

\* C29: the default name localized_<clock>.png is returned exactly when
\* findPattern is empty, does not compile or does not match the working name;
\* a call whose pattern is non-empty, compiles and matches returns the
\* substituted name, an empty template included.
C29_FallbackIffNoMatch ==
    naming.result # None =>
       /\ naming.result = Some(Fallback(naming.now)) <=> ~MatchedCall
       /\ MatchedCall => naming.result = Some(WithExtension(Replaced))

\* The extensions of ImageExtensions, upper-case ones too, at the end of a name.
Recognized(name) ==
    \E e \in ImageExtensions :
       /\ Len(name) >= Len(e)
       /\ \A i \in 1..Len(e) :
             Lower(name[Len(name) - Len(e) + i]) = e[i]

Substituted == MatchedCall /\ naming.replacePattern # <<>>

\* C30: the name returned always ends in .png, .jpg, .jpeg, .webp or .gif: a
\* substituted name that ends in one of them is returned as it is, any other
\* substituted name with one ".png" after it, and the default name ends in
\* .png.
C30_EndsInImageExtension ==
    naming.result # None =>
       /\ Recognized(naming.result[1])
       /\ (Substituted /\ Recognized(Replaced))
             => naming.result[1] = Replaced
       /\ (Substituted /\ ~Recognized(Replaced))
             => naming.result[1] = Replaced \o DotPng
       /\ ~Substituted => EndsWith(naming.result[1], DotPng)

\* A substituted name without an extension has been returned.
C30_Witness ==
    /\ naming.result # None
    /\ Substituted
    /\ ~Recognized(Replaced)

\* The template read once, left to right: a TIMESTAMP written in it is the
\* clock's reading, a $n written in it is the n-th capture, and neither what
\* a capture holds nor the digits of the reading are read again.
RECURSIVE ReadOnce(_, _, _)
ReadOnce(template, caps, timestamp) ==
    IF template = <<>> THEN <<>>
    ELSE IF StartsWith(template, TimestampToken)
    THEN timestamp \o ReadOnce(SubSeq(template, Len(TimestampToken) + 1,
                                      Len(template)), caps, timestamp)
    ELSE IF /\ Head(template) = "$" /\ Len(template) >= 2
            /\ IsDigit(template[2]) /\ DigitValue(template[2]) \in 1..Len(caps)
    THEN caps[DigitValue(template[2])]
            \o ReadOnce(SubSeq(template, 3, Len(template)), caps, timestamp)
    ELSE <<Head(template)>> \o ReadOnce(Tail(template), caps, timestamp)

Candidate == attempt.response.candidate
Written == attempt.result[1]
InlineImage ==
    /\ Candidate # None
    /\ Candidate[1].parts # None
    /\ \E k \in 1..Len(Candidate[1].parts[1]) :
          Candidate[1].parts[1][k] = "inlineData"
Unusable ==
    \/ Candidate = None
    \/ Candidate[1].finishReason \notin {None, Some("STOP")}
    \/ Candidate[1].parts \in {None, Some(<<>>)}
    \/ ~InlineImage

\* C22: a run marks its job completed only if the response has a candidate
\* whose finish reason is STOP and which holds inline image data; a response
\* without candidate, with another finish reason, without content parts or
\* without inline image data makes the job failed.
C22_CompletedOnlyOnStop ==
    attempt.result # None =>
       /\ Written.status = "completed"
             => /\ Candidate # None
                /\ Candidate[1].finishReason = Some("STOP")
                /\ InlineImage
       /\ Unusable => Written.status = "failed"

\* C22, the finish reason being optional: a run marks its job completed only
\* if the response has a candidate that carries no finish reason or the finish
\* reason STOP and that holds inline image data; a response without
\* candidate, with another finish reason, without content parts or without
\* inline image data makes the job failed.
C22_CompletedOnlyOnImage ==
    attempt.result # None =>
       /\ Written.status = "completed"
             => /\ Candidate # None
                /\ Candidate[1].finishReason \in {None, Some("STOP")}
                /\ InlineImage
       /\ Unusable => Written.status = "failed"

\* A response whose candidate has an image and no finish reason has completed
\* its job.
C22_Witness ==
    /\ attempt.result # None
    /\ Written.status = "completed"
    /\ Candidate[1].finishReason = None

\* C23: a run stores a blob only for the job it completes, which then
\* references that blob: a run that ends its job failed has stored none.
C23_BlobOnlyWhenCompleted ==
    attempt.result # None =>
       /\ Written.status = "completed"
             => Written.stored /\ Written.generatedFileId = Some(FileId)
       /\ Written.status = "failed" => ~Written.stored

Asked(status, batchId) ==
    {j \in JobIds : /\ status # None => jobs[j].status = status[1]
                    /\ batchId # None => jobs[j].batchId = batchId}

\* C25: listJobs returns only jobs that have the status asked for, when one
\* is given, and the batchId asked for, when one is given, both together
\* included, and its total is the number of jobs of the store that match.
C25_ListJobsFilters ==
    \A status \in {None} \cup {Some(x) : x \in Statuses},
       batchId \in {None} \cup {Some(x) : x \in 1..MaxBatches},
       limit \in ListLimits, offset \in ListOffsets :
       LET answer == ListJobs(status, batchId, limit, offset) IN
       /\ \A k \in 1..Len(answer.jobs) : answer.jobs[k] \in Asked(status, batchId)
       /\ answer.total = Cardinality(Asked(status, batchId))

\* C27: a look-up of a job id that no job has, or of a batch id that no job
\* carries, is answered with the not-found status, not with an empty list or
\* a summary of zeros.
C27_UnknownIsNotFound ==
    /\ \A j \in 1..MaxJobs + 1 :
          j \notin JobIds => JobByIdResponse(Some(j)).status = 404
    /\ \A b \in 1..MaxBatches :
          GetByBatchId(b) = <<>> => JobsBatchResponse(Some(b)).status = 404

\* A request of p starts with this step, and is refused in it.
Starts(p) == procs[p].kind = "idle" /\ procs'[p].kind # "idle"
RefusedAtStart(p) == Starts(p) /\ procs'[p].pc = "h_done"

Prompt == request.sent[1][1].text
Asked32 == request.config[1]

\* The text holds the pieces, one after the other.
Holds(text, pieces) ==
    \E i \in 0..(Len(text) - Len(pieces)) :
       SubSeq(text, i + 1, i + Len(pieces)) = pieces

\* The logo is attached: a third part carries the config's logo data as a
\* PNG image.
LogoAttached ==
    /\ Len(request.sent[1]) = 3
    /\ request.sent[1][3].kind = "inlineData"
    /\ request.sent[1][3].mimeType = "image/png"
    /\ request.sent[1][3].data = Asked32.ownLogoData.s

\* C32: the instruction text sent holds the remove-branding clause iff
\* removeBranding is set, the color clause with the config's brandingColor
\* iff addBrandingColors is set (and with no other color), and the
\* insert-logo clause iff addOwnLogo is set and ownLogoData is a non-empty
\* string, which is exactly when the logo is attached as a second image;
\* without it the request has the text and the source image only.
C32_ClausesFollowFlags ==
    request.sent # None =>
       /\ Holds(Prompt, <<RemoveClause(request.side)>>)
             <=> Asked32.removeBranding
       /\ \A color \in BrandingColors :
             Holds(Prompt, ColorClause(request.side, color))
                <=> (Asked32.addBrandingColors /\ color = Asked32.brandingColor)
       /\ Holds(Prompt, <<LogoClause(request.side)>>)
             <=> (/\ Asked32.addOwnLogo
                  /\ Asked32.ownLogoData \notin {Undefined, Null, Str("")})
       /\ Holds(Prompt, <<LogoClause(request.side)>>) <=> LogoAttached
       /\ ~LogoAttached => Len(request.sent[1]) = 2

\* A request with the three flags set and the logo attached has been sent.
C32_Witness ==
    /\ request.sent # None
    /\ Asked32.addOwnLogo
    /\ Asked32.removeBranding
    /\ Asked32.addBrandingColors
    /\ LogoAttached


\* Request p is a processBatch invoked on its own, taking a step.
BatchStep(p) == procs[p].kind = "batch" /\ procs'[p] # procs[p]

\* C33: a processBatch(batchId) starts a job (sets it processing) only if the
\* job is of that batch and pending at that moment, and its steps change no
\* other job: jobs of other batches and jobs of its batch that are
\* processing, completed or failed stay as they are, so a call on a batch
\* whose jobs are all terminal changes nothing.
C33_BatchRunsOnlyPending ==
    [][\A p \in Procs : BatchStep(p) =>
          /\ procs[p].pc = "j_setProcessing" =>
                /\ jobs[procs[p].jobId].batchId = Some(procs[p].batchId)
                /\ jobs[procs[p].jobId].status = "pending"
          /\ \A j \in JobIds :
                jobs'[j] # jobs[j] =>
                   /\ j = procs[p].jobId
                   /\ jobs[j].batchId = Some(procs[p].batchId)
                   /\ procs[p].pc = "j_setProcessing" \/ jobs[j].status = "processing"
          /\ (procs[p].pc = "b_query"
                /\ \A j \in JobIds : jobs[j].batchId = Some(procs[p].batchId)
                                         => jobs[j].status \in Terminal)
                => procs'[p].pc = "a_returned"]_vars



\* The pages answered, the page size asked for, and the pages' jobs one
\* after the other.
Browsed == read.op = "pages" /\ read.result # None
Answered == read.result[1]
PageSize == read.args.limit[1]

RECURSIVE Joined(_)
Joined(pages) ==
    IF pages = <<>> THEN <<>> ELSE Head(pages).jobs \o Joined(Tail(pages))

\* C34: in any state of the store and for any filter and page size, the
\* pages of listJobs at offsets 0, limit, 2*limit, ... hold at most limit
\* jobs each, share no job, all report the same total, are empty from offset
\* total on, and put one after the other are the whole result: total jobs,
\* the list that one call without a limit returns, and, for a filter on the
\* status or on the batch alone, exactly the jobs of the store that match.
C34_PagesPartitionResult ==
    Browsed =>
       LET total == Answered[1].total
           all == Joined(Answered)
       IN /\ \A k \in 1..Len(Answered) :
                /\ Answered[k].total = total
                /\ Len(Answered[k].jobs) <= PageSize
                /\ (k - 1) * PageSize >= total => Answered[k].jobs = <<>>
          /\ Len(all) = total
          /\ \A x, y \in 1..Len(all) : x # y => all[x] # all[y]
          /\ all = ListJobs(read.args.status, read.args.batchId, None, None).jobs
          /\ (read.args.status = None \/ read.args.batchId = None)
                => {all[x] : x \in 1..Len(all)}
                      = Asked(read.args.status, read.args.batchId)

\* Three jobs have been listed in pages of two: a full page, a last page of
\* one job, and empty pages after them.
C34_Witness ==
    /\ Browsed
    /\ PageSize = 2
    /\ Answered[1].total = 3
    /\ Len(Answered[1].jobs) = 2
    /\ Len(Answered[2].jobs) = 1
    /\ Answered[3].jobs = <<>>


\* Request p, a single-image call, takes a step; its response is ready after
\* the step.
SingleStep(p) == procs'[p] # procs[p] /\ procs'[p].kind = "httpSingle"
SingleAnswered(p) == procs[p].kind = "httpSingle" /\ procs[p].pc = "h_done"

\* C35: a single-image call inserts one job, when it starts, and no other;
\* when its response is ready that job is completed or failed, the response
\* says success exactly if it is completed, and if it is failed the response
\* is an error with the error message recorded in the job.
C35_SingleReportsItsJob ==
    [][\A p \in Procs : SingleStep(p) =>
          /\ Len(jobs') = Len(jobs) + (IF procs[p].kind = "idle" THEN 1 ELSE 0)
          /\ procs[p].kind = "idle" => procs'[p].jobId = Len(jobs')
          /\ procs[p].kind # "idle" => procs'[p].jobId = procs[p].jobId
          /\ procs'[p].pc = "h_done" =>
                LET job == jobs'[procs'[p].jobId]
                    r == procs'[p].response[1]
                IN /\ job.status \in Terminal
                   /\ r.success <=> job.status = "completed"
                   /\ job.status = "failed" => job.error = Some(r.error)]_vars

\* A single-image call whose job failed has its error response ready, and
\* another job exists beside its own.
C35_Witness ==
    \E p \in Procs :
       /\ SingleAnswered(p)
       /\ jobs[procs[p].jobId].status = "failed"
       /\ ~procs[p].response[1].success
       /\ Len(jobs) > 1


\* C36: the results of a batch response are one entry per url submitted, in
\* the order submitted: entry k is the job that the request created for the
\* k-th url and carries that url, the same url submitted twice included, so
\* no job of another request is among them.
C36_ResultsFollowUrls ==
    \A p \in Procs :
       BatchAnswered(p) =>
          LET c == procs[p]
              results == c.response[1].results
          IN /\ Len(results) = Len(c.sources)
             /\ \A k \in 1..Len(results) :
                   /\ results[k].sourceUrl = c.sources[k]
                   /\ results[k].jobId = c.created[k]
                   /\ jobs[results[k].jobId].batchId = Some(c.batchId)
             /\ \A q \in Procs \ {p} :
                   \A k \in 1..Len(results) :
                      /\ results[k].jobId # procs[q].jobId
                      /\ \A i \in 1..Len(procs[q].created) :
                            results[k].jobId # procs[q].created[i]

\* A batch over two urls has its response ready, the job of another request
\* created between its own two.
C36_Witness ==
    \E p \in Procs :
       /\ BatchAnswered(p)
       /\ procs[p].sources = <<SourceUrl, OtherUrl>>
       /\ procs[p].created = <<1, 3>>


\* The batch request of p has an error response ready.
BatchFailed(p) ==
    /\ procs[p].kind = "httpBatch"
    /\ procs[p].pc = "h_done"
    /\ ~procs[p].response[1].success

\* C37: when a batch request ends with an error response, the store holds no
\* job of that request: none that the request created, none with its batch
\* id, and so none of them pending or processing.
C37_FailedBatchLeavesNoJob ==
    \A p \in Procs :
       BatchFailed(p) =>
          /\ procs[p].created = <<>>
          /\ \A j \in JobIds : jobs[j].batchId # Some(procs[p].batchId)


\* The calls of processQueue that have a job in hand: created and not yet
\* settled.
InHand ==
    {r \in 1..MaxRuns :
        \/ front.runs[r].pc \in {"q_setJobProcessing", "q_generate", "q_setJobCompleted"}
        \/ front.runs[r].pc = "q_catch" /\ front.runs[r].convexJobId # 0}

\* No call of processQueue is in progress.
Finished == \A r \in 1..MaxRuns : front.runs[r].pc = "idle"

\* The task and the job created for it last are in matching statuses.
Matching(task) ==
    task.convexJobId # 0 =>
        /\ task.status \in {"COMPLETED", "FAILED"}
        /\ task.status = "COMPLETED" <=> jobs[task.convexJobId].status = "completed"
        /\ task.status = "FAILED" <=> jobs[task.convexJobId].status = "failed"

\* C38: in the front-end queue the tasks that are IDLE or FAILED are
\* processed one at a time in list order: at most one task is in hand, it is
\* the only task PROCESSING and its job the only job not settled, and the
\* jobs of one batch are created in the order of their tasks. After
\* processQueue finishes each task that was processed is COMPLETED or FAILED,
\* its job is completed iff the task is COMPLETED and failed iff the task is
\* FAILED, and no job is left pending or processing.
C38_QueueSettlesTasksAndJobs ==
    /\ Cardinality(InHand) <= 1
    /\ \A i \in 1..Len(front.tasks) :
          front.tasks[i].status = "PROCESSING"
              <=> \E r \in InHand : front.runs[r].at = i
    /\ \A k \in 1..Len(jobs) :
          jobs[k].status \in {"pending", "processing"}
              <=> \E r \in InHand : front.runs[r].convexJobId = k
    /\ \A i, j \in 1..Len(front.tasks) :
          LET a == front.tasks[i].convexJobId
              b == front.tasks[j].convexJobId
          IN  (i < j /\ a # 0 /\ b # 0 /\ jobs[a].batchId = jobs[b].batchId)
                  => a < b
    /\ Finished =>
          /\ \A i \in 1..Len(front.tasks) :
                /\ front.tasks[i].status \in {"IDLE", "COMPLETED", "FAILED"}
                /\ front.tasks[i].status = "IDLE" => front.tasks[i].convexJobId = 0
                /\ Matching(front.tasks[i])
          /\ \A k \in 1..Len(jobs) : jobs[k].status \in {"completed", "failed"}

====
